---- MODULE Spec2Model ----
(***************************************************************************)
(* Model of the CSV statement import of the finance app:                   *)
(*   finance/importers.py  (AmexCSVParser, CSVImporter)                    *)
(*   finance/views.py      (csv_import_upload, csv_import_preview)         *)
(*   finance/models.py     (Transaction, CSVImport)                        *)
(*                                                                         *)
(* Strings of the CSV file are sequences of one-character strings, so that *)
(* strip / replace / startswith / slicing / Decimal() / strptime() are     *)
(* computed character by character as the code computes them.              *)
(* Decimal amounts are integers counted in cents; dates are <<y, m, d>>.   *)
(* Python's None is NoDate (<<>>), NoAmount (-1), NoError (<<>>), NoId (0).*)
(***************************************************************************)
EXTENDS Integers, Sequences, FiniteSets, TLC

VARIABLES
    transactions,   \* the Transaction table (committed rows)
    next_tx_id,     \* creation counter: stands for Transaction.id and created_at
    csv_imports,    \* the CSVImport table, indexed by import id (committed rows)
    runs,           \* the POST requests to csv_import_preview, in arrival order
    concurrent,     \* whether requests may overlap (several server workers)
    call,           \* the last direct call or API request and its result
    tasks,          \* the AdminTask table, in creation order
    clock,          \* timezone.now(), counted in timestamps taken
    tax_alerts,     \* the TaxAlert table
    audit_logs,     \* the AuditLog table
    recurring       \* the RecurringTransaction table, in creation order

\* the tables and requests of the CSV import
import_vars == <<transactions, next_tx_id, csv_imports, runs, concurrent>>
\* the tables of the task console, the tax alerts, the audit log and the
\* recurring templates
other_vars == <<tasks, clock, tax_alerts, audit_logs, recurring>>

vars == <<import_vars, call, other_vars>>

----------------------------------------------------------------------------
(* Bounds *)

\* uploads (CSVImport records) per behaviour
MaxImports == 2
\* confirm (POST) requests per behaviour
MaxRuns == 2
\* scaled stand-in for Transaction.description max_length / the [:500] slices
MaxDescriptionLen == 3

\* server workers of a parallel deployment
MaxWorkers == 2

\* lines of a file handed to parse_csv directly
MaxLines == 3

\* reference[:100] (no reference of the model is that long)
ReferenceMaxLen == 100

----------------------------------------------------------------------------
(* Python string primitives on sequences of characters *)

Whitespace == {" "}
DigitChars == {"0", "1", "2", "3", "4", "5", "6", "7", "8", "9"}

DigitVal(c) ==
    CASE c = "0" -> 0 [] c = "1" -> 1 [] c = "2" -> 2 [] c = "3" -> 3
      [] c = "4" -> 4 [] c = "5" -> 5 [] c = "6" -> 6 [] c = "7" -> 7
      [] c = "8" -> 8 [] c = "9" -> 9

\* str.lstrip()
RECURSIVE LStrip(_)
LStrip(s) ==
    IF s # <<>> /\ Head(s) \in Whitespace THEN LStrip(Tail(s)) ELSE s

\* str.rstrip()
RECURSIVE RStrip(_)
RStrip(s) ==
    IF s # <<>> /\ s[Len(s)] \in Whitespace
    THEN RStrip(SubSeq(s, 1, Len(s) - 1)) ELSE s

\* str.strip()
Strip(s) == RStrip(LStrip(s))

\* s.replace(c, '')
Remove(s, c) == SelectSeq(s, LAMBDA x : x # c)

\* s[:n]
Slice(s, n) == IF Len(s) <= n THEN s ELSE SubSeq(s, 1, n)

\* s.startswith(c) for a one-character prefix
StartsWith(s, c) == s # <<>> /\ Head(s) = c

UpperLetters ==
    <<"A", "B", "C", "D", "E", "F", "G", "H", "I", "J", "K", "L", "M",
      "N", "O", "P", "Q", "R", "S", "T", "U", "V", "W", "X", "Y", "Z">>
LowerLetters ==
    <<"a", "b", "c", "d", "e", "f", "g", "h", "i", "j", "k", "l", "m",
      "n", "o", "p", "q", "r", "s", "t", "u", "v", "w", "x", "y", "z">>

\* str.lower(), one character
LowerChar(c) ==
    IF \E i \in 1..26 : UpperLetters[i] = c
    THEN LowerLetters[CHOOSE i \in 1..26 : UpperLetters[i] = c]
    ELSE c

\* str.lower()
Lower(s) == [i \in 1..Len(s) |-> LowerChar(s[i])]

\* the __iexact lookup: equality up to letter case
IExact(a, b) == Lower(a) = Lower(b)

\* a in b, for strings
Contains(b, a) ==
    \E k \in 0..(Len(b) - Len(a)) : SubSeq(b, k + 1, k + Len(a)) = a

\* s.endswith(suffix)
EndsWith(s, suffix) ==
    Len(s) >= Len(suffix)
    /\ SubSeq(s, Len(s) - Len(suffix) + 1, Len(s)) = suffix

\* s.split(sep) for a one-character separator
RECURSIVE Split(_, _)
Split(s, sep) ==
    IF \A i \in 1..Len(s) : s[i] # sep THEN <<s>>
    ELSE LET k == CHOOSE i \in 1..Len(s) :
                     s[i] = sep /\ \A j \in 1..(i - 1) : s[j] # sep
         IN  <<SubSeq(s, 1, k - 1)>> \o Split(SubSeq(s, k + 1, Len(s)), sep)

AllDigits(s) == s # <<>> /\ \A i \in 1..Len(s) : s[i] \in DigitChars

\* int() of a digit string
RECURSIVE DigitsValue(_)
DigitsValue(s) ==
    IF s = <<>> THEN 0
    ELSE 10 * DigitsValue(SubSeq(s, 1, Len(s) - 1)) + DigitVal(s[Len(s)])

----------------------------------------------------------------------------
(* None values *)

NoDate == <<>>
NoAmount == -1
NoError == <<>>
NoId == 0
\* None as the value of a dictionary entry: what csv.DictReader stores for a
\* field that the line does not have
None == <<"None">>
\* Decimal() raised InvalidOperation
InvalidOperation == [ok |-> FALSE, cents |-> 0]

----------------------------------------------------------------------------
(* AmexCSVParser: parse_date *)

IsLeap(y) == (y % 4 = 0 /\ y % 100 # 0) \/ y % 400 = 0

DaysInMonth(y, m) ==
    IF m = 2 THEN (IF IsLeap(y) THEN 29 ELSE 28)
    ELSE IF m \in {4, 6, 9, 11} THEN 30 ELSE 31

\* the %m and %d directives accept one or two digits
OneOrTwoDigits(s) == Len(s) \in {1, 2} /\ AllDigits(s)

\* datetime(y, m, d) or ValueError (NoDate)
MakeDate(y, m, d) ==
    IF y >= 1 /\ m \in 1..12 /\ d >= 1 /\ d <= DaysInMonth(y, m)
    THEN <<y, m, d>> ELSE NoDate

\* strptime(s, '%m/%d/%Y')
StrptimeMDY4(s) ==
    LET f == Split(s, "/") IN
    IF Len(f) = 3 /\ OneOrTwoDigits(f[1]) /\ OneOrTwoDigits(f[2])
       /\ Len(f[3]) = 4 /\ AllDigits(f[3])
    THEN MakeDate(DigitsValue(f[3]), DigitsValue(f[1]), DigitsValue(f[2]))
    ELSE NoDate

\* TwoDigitYear that takes every two-digit year as 20yy
TwoDigitYearAlways2000(yy) == 2000 + yy

\* the %y directive: 69..99 are 1969..1999, 00..68 are 2000..2068
TwoDigitYear(yy) == IF yy >= 69 THEN 1900 + yy ELSE 2000 + yy

\* strptime(s, '%m/%d/%y')
StrptimeMDY2(s) ==
    LET f == Split(s, "/") IN
    IF Len(f) = 3 /\ OneOrTwoDigits(f[1]) /\ OneOrTwoDigits(f[2])
       /\ Len(f[3]) = 2 /\ AllDigits(f[3])
    THEN MakeDate(TwoDigitYear(DigitsValue(f[3])),
                  DigitsValue(f[1]), DigitsValue(f[2]))
    ELSE NoDate

\* strptime(s, '%Y-%m-%d')
StrptimeYMD(s) ==
    LET f == Split(s, "-") IN
    IF Len(f) = 3 /\ Len(f[1]) = 4 /\ AllDigits(f[1])
       /\ OneOrTwoDigits(f[2]) /\ OneOrTwoDigits(f[3])
    THEN MakeDate(DigitsValue(f[1]), DigitsValue(f[2]), DigitsValue(f[3]))
    ELSE NoDate

parse_date(date_str) ==
    IF date_str = <<>> \/ date_str = None THEN NoDate
    ELSE LET s == Strip(date_str) IN
         IF StrptimeMDY4(s) # NoDate THEN StrptimeMDY4(s)
         ELSE IF StrptimeMDY2(s) # NoDate THEN StrptimeMDY2(s)
         ELSE StrptimeYMD(s)

----------------------------------------------------------------------------
(* AmexCSVParser: parse_amount, is_refund *)

\* Decimal(s) for the plain notation [sign] digits [. digits], counted in
\* cents (at most two fractional digits, as in the statements of the model);
\* anything else raises InvalidOperation
Decimal(str) ==
    LET s == Strip(str)
        signed == s # <<>> /\ Head(s) \in {"-", "+"}
        body == IF signed THEN Tail(s) ELSE s
        f == Split(body, ".")
        ip == f[1]
        fp == IF Len(f) = 2 THEN f[2] ELSE <<>>
        wellformed ==
            /\ Len(f) \in {1, 2}
            /\ ip \o fp # <<>>
            /\ \A i \in 1..Len(ip) : ip[i] \in DigitChars
            /\ \A i \in 1..Len(fp) : fp[i] \in DigitChars
            /\ Len(fp) <= 2
        frac == IF Len(fp) = 1 THEN 10 * DigitsValue(fp) ELSE DigitsValue(fp)
        magnitude == 100 * DigitsValue(ip) + frac
    IN  IF ~wellformed THEN InvalidOperation
        ELSE [ok |-> TRUE,
              cents |-> IF signed /\ Head(s) = "-" THEN 0 - magnitude
                        ELSE magnitude]

Abs(n) == IF n < 0 THEN 0 - n ELSE n

parse_amount(amount_str) ==
    IF amount_str = <<>> \/ amount_str = None THEN NoAmount
    ELSE LET d == Decimal(Remove(Remove(Strip(amount_str), "$"), ","))
         IN  IF d.ok THEN Abs(d.cents) ELSE NoAmount

is_refund(amount_str) ==
    IF amount_str = <<>> \/ amount_str = None THEN FALSE
    ELSE LET d == Decimal(Remove(Remove(Strip(amount_str), "$"), ","))
         IN  d.ok /\ d.cents < 0

----------------------------------------------------------------------------
(* The statements that can be uploaded *)

\* the characters of a string literal
Chars(str) == [i \in 1..Len(str) |-> SubSeq(str, i, i)]

\* the text of a sequence of characters, as a dictionary key
RECURSIVE Str(_)
Str(s) == IF s = <<>> THEN "" ELSE Head(s) \o Str(Tail(s))

\* Amex CSV columns
AMEX_COLUMNS ==
    <<"Date", "Description", "Amount", "Extended Details",
      "Appears On Your Statement As", "Address", "City/State", "Zip Code",
      "Country", "Reference", "Category">>

\* one line of a file as csv.reader returns it: the list of its cells; a
\* blank line is <<>>
Line(cells) == [i \in 1..Len(cells) |-> Chars(cells[i])]

\* the header line of the statements of the upload form
StatementHeader ==
    Line(<<"Date", "Description", "Amount", "Appears On Your Statement As",
           "Reference">>)

\* one data line under StatementHeader
RawRow(date, description, amount, statement_as, reference) ==
    Line(<<date, description, amount, statement_as, reference>>)

\* a charge with a reference
RowCharge == RawRow("01/05/2026", "ab", "1.50", "", "R1")
\* a credit of the same date, amount and (up to case) description as RowCharge
RowCredit == RawRow("1/5/26", "x", "$-1.50", "AB", "")
\* a credit written with a leading minus sign
RowMinus == RawRow("2026-01-06", "cd", " -2", "", "")
\* a row with a zero amount
RowZero == RawRow("01/07/2026", "ab", "0.00", "", "")
\* a row whose date does not parse
RowBadDate == RawRow("13/01/2026", "ab", "1.50", "", "")
\* a row without any description
RowNoDescription == RawRow("01/07/2026", "", "1.50", "", "")
\* a row whose description is cut by the length limit
RowLong == RawRow("01/09/2026", "ab c", "3", "", "")
\* another charge carrying the reference of RowCharge
RowSameRef == RawRow("01/09/2026", "cd", "$1,000", "", "R1")

Accounts == {1, 2}

\* the uploaded files: name -> content, the list of the lines
FileContent(name) ==
    CASE name = "charges.csv" -> <<StatementHeader, RowCharge, RowMinus>>
      [] name = "zero.csv" -> <<StatementHeader, RowCharge, RowZero>>
      [] name = "credit.csv" -> <<StatementHeader, RowCredit, RowBadDate>>
      [] name = "long.csv" ->
            <<StatementHeader, RowNoDescription, RowLong, RowSameRef>>

\* the (account, file) pairs of the upload form
UploadPool ==
    { [account |-> 1, file |-> "charges.csv"],
      [account |-> 2, file |-> "zero.csv"],
      [account |-> 1, file |-> "credit.csv"],
      [account |-> 1, file |-> "long.csv"] }

----------------------------------------------------------------------------
(* Category and the parser's category map *)

\* a row of the Category table
Category(id, name, category_type, is_active, display_order) ==
    [id |-> id, name |-> name, category_type |-> category_type,
     is_active |-> is_active, display_order |-> display_order]

\* amex_to_ours, in the order of the dictionary
AmexToOurs ==
    << <<"Business Services", "Professional Services">>,
       <<"Business Services-Other", "Professional Services">>,
       <<"Office Supplies", "Office Supplies">>,
       <<"Computer Supplies", "Equipment">>,
       <<"Telecommunications", "Software & Subscriptions">>,
       <<"Software", "Software & Subscriptions">>,
       <<"Advertising", "Advertising & Marketing">>,
       <<"Marketing", "Advertising & Marketing">>,
       <<"Education", "Education & Training">>,
       <<"Travel", "Travel">>,
       <<"Airlines", "Travel">>,
       <<"Hotels", "Travel">>,
       <<"Rental Cars", "Travel">>,
       <<"Restaurants", "Meals & Entertainment">>,
       <<"Restaurant", "Meals & Entertainment">>,
       <<"Dining", "Meals & Entertainment">>,
       <<"Fees & Adjustments", "Bank Fees & Interest">>,
       <<"Fees", "Bank Fees & Interest">>,
       <<"Interest", "Bank Fees & Interest">>,
       <<"Merchandise & Supplies", "Office Supplies">>,
       <<"Merchandise", "Office Supplies">>,
       <<"Other", "Miscellaneous">> >>

\* QuerySet.first() under Meta.ordering
\* ['category_type', 'display_order', 'name'], for categories of one name
FirstCategory(cs) ==
    LET Before(c, d) ==
            \/ c.category_type = "expense" /\ d.category_type = "income"
            \/ /\ c.category_type = d.category_type
               /\ \/ c.display_order < d.display_order
                  \/ c.display_order = d.display_order /\ c.id < d.id
    IN  CHOOSE c \in cs : \A d \in cs : d = c \/ Before(c, d)

\* our_categories[name]: of the active expense categories of that name the one
\* the queryset returns last
OurCategory(categories, name) ==
    LET cs == {c \in categories :
                  c.is_active /\ c.category_type = "expense" /\ c.name = name}
    IN  CHOOSE c \in cs : \A d \in cs :
            d = c \/ d.display_order < c.display_order
            \/ (c.display_order = d.display_order /\ d.id < c.id)

\* the dictionary amex category (lower case) -> Category id, as the list of
\* its items in insertion order
_build_category_map(categories) ==
    LET kept == SelectSeq(AmexToOurs,
                    LAMBDA pair : \E c \in categories :
                        /\ c.is_active /\ c.category_type = "expense"
                        /\ c.name = pair[2])
    IN  [i \in 1..Len(kept) |->
            [key |-> Lower(Chars(kept[i][1])),
             category |-> OurCategory(categories, kept[i][2]).id]]

\* the id of the suggested Category, or NoId
get_suggested_category(amex_category, category_map) ==
    IF amex_category = <<>> THEN NoId
    ELSE LET key == Strip(Lower(amex_category))
             exact == {i \in DOMAIN category_map : category_map[i].key = key}
             partial == {i \in DOMAIN category_map :
                            \/ Contains(key, category_map[i].key)
                            \/ Contains(category_map[i].key, key)}
         IN  IF exact # {}
             THEN category_map[CHOOSE i \in exact : TRUE].category
             ELSE IF partial # {}
             THEN category_map[CHOOSE i \in partial :
                                  \A j \in partial : i <= j].category
             ELSE NoId

\* the Category table: two active expense categories the map knows, an
\* inactive one, and the income category for refunds
DefaultCategories ==
    { Category(1, "Office Supplies", "expense", TRUE, 1),
      Category(2, "Travel", "expense", TRUE, 2),
      Category(3, "Equipment", "expense", FALSE, 3),
      Category(4, "Refunds", "income", TRUE, 1) }

----------------------------------------------------------------------------
(* Transaction queries *)

DateBefore(a, b) ==
    \/ a[1] < b[1]
    \/ a[1] = b[1] /\ a[2] < b[2]
    \/ a[1] = b[1] /\ a[2] = b[2] /\ a[3] < b[3]

\* QuerySet.first() under Meta.ordering ['-transaction_date', '-created_at']
First(txs) ==
    CHOOSE t \in txs : \A u \in txs :
        \/ u = t
        \/ DateBefore(u.transaction_date, t.transaction_date)
        \/ u.transaction_date = t.transaction_date /\ u.id < t.id

----------------------------------------------------------------------------
(* AmexCSVParser: check_duplicate, parse_row, parse_csv *)

\* is_valid without the test of the error
is_valid_ignoring_error(row) ==
    row.date # NoDate /\ row.amount # NoAmount

is_valid(row) ==
    row.error = NoError /\ row.date # NoDate /\ row.amount # NoAmount

\* Transaction.objects.filter(account, transaction_date, amount,
\*                            description__iexact)
DescriptionMatches(parsed_row, account, txs) ==
    {t \in txs :
        /\ t.account = account
        /\ t.transaction_date = parsed_row.date
        /\ t.amount = parsed_row.amount
        /\ IExact(t.description,
                  Slice(Strip(parsed_row.description), MaxDescriptionLen))}

\* Transaction.objects.filter(account, reference_number)
ReferenceMatches(parsed_row, account, txs) ==
    {t \in txs :
        t.account = account /\ t.reference_number = parsed_row.reference}

\* returns <<is_duplicate, existing id>>; "not parsed_row.amount" is true of
\* None and of a zero Decimal
check_duplicate(parsed_row, account, txs) ==
    IF parsed_row.date = NoDate \/ parsed_row.amount = NoAmount
       \/ parsed_row.amount = 0
    THEN <<FALSE, NoId>>
    ELSE IF DescriptionMatches(parsed_row, account, txs) # {}
    THEN <<TRUE, First(DescriptionMatches(parsed_row, account, txs)).id>>
    ELSE IF parsed_row.reference # <<>>
            /\ ReferenceMatches(parsed_row, account, txs) # {}
    THEN <<TRUE, First(ReferenceMatches(parsed_row, account, txs)).id>>
    ELSE <<FALSE, NoId>>

\* row.get(key, '')
Get(row, key) == IF key \in DOMAIN row THEN row[key] ELSE <<>>

\* parse_row raises AttributeError: .strip() of a None entry
parse_row_raises(row) ==
    \/ Get(row, "Appears On Your Statement As") = None
    \/ /\ Strip(Get(row, "Appears On Your Statement As")) = <<>>
       /\ Get(row, "Description") = None
    \/ Get(row, "Reference") = None
    \/ Get(row, "Category") = None

\* the ParsedRow of one row (of a row for which parse_row does not raise)
parse_row(row, row_number, account, txs, category_map) ==
    LET date_str == Get(row, "Date")
        parsed_date == parse_date(date_str)
        error1 == IF parsed_date = NoDate
                  THEN <<"Invalid date format: ", date_str>> ELSE NoError
        amount_str == Get(row, "Amount")
        parsed_amount == parse_amount(amount_str)
        error2 == IF parsed_amount = NoAmount /\ error1 = NoError
                  THEN <<"Invalid amount format: ", amount_str>> ELSE error1
        statement_as == Strip(Get(row, "Appears On Your Statement As"))
        description == IF statement_as # <<>> THEN statement_as
                       ELSE Strip(Get(row, "Description"))
        error == IF description = <<>> /\ error2 = NoError
                 THEN <<"Missing description">> ELSE error2
        amex_category == Strip(Get(row, "Category"))
        parsed == [row_number |-> row_number,
                   date |-> parsed_date,
                   description |-> Slice(description, MaxDescriptionLen),
                   amount |-> parsed_amount,
                   reference |-> Slice(Strip(Get(row, "Reference")),
                                       ReferenceMaxLen),
                   amex_category |-> amex_category,
                   suggested_category_id |->
                       get_suggested_category(amex_category, category_map),
                   is_duplicate |-> FALSE,
                   duplicate_transaction_id |-> NoId,
                   error |-> error,
                   raw_data |-> row]
        dup == check_duplicate(parsed, account, txs)
    IN  IF error = NoError
        THEN [parsed EXCEPT !.is_duplicate = dup[1],
                            !.duplicate_transaction_id = dup[2]]
        ELSE parsed

\* one row of csv.DictReader: a field the line does not reach is None, and of
\* two fields of one name the later one counts (the cells beyond the field
\* names, kept under the key None, are left out)
DictRow(fieldnames, line) ==
    [k \in {Str(fieldnames[i]) : i \in 1..Len(fieldnames)} |->
        LET i == CHOOSE i \in 1..Len(fieldnames) :
                    /\ Str(fieldnames[i]) = k
                    /\ \A j \in (i + 1)..Len(fieldnames) :
                          Str(fieldnames[j]) # k
        IN  IF i <= Len(line) THEN line[i] ELSE None]

\* the rows csv.DictReader yields: the first line gives the field names, blank
\* lines are passed over
DictReader(content) ==
    LET lines == SelectSeq(Tail(content), LAMBDA line : line # <<>>)
    IN  [n \in 1..Len(lines) |-> DictRow(Head(content), lines[n])]

\* the header test without its case-insensitive alternatives
HeaderMissingExactCase(content) ==
    /\ content # <<>>
    /\ Head(content) # <<>>
    /\ LET fieldnames == Head(content)
           normalized == [i \in 1..Len(fieldnames) |-> Strip(fieldnames[i])]
       IN  ~( /\ \E i \in DOMAIN normalized : normalized[i] = Chars("Date")
              /\ \E i \in DOMAIN normalized :
                    normalized[i] = Chars("Amount") )

\* "if reader.fieldnames:" and not (has_date and has_amount)
HeaderMissing(content) ==
    /\ content # <<>>
    /\ Head(content) # <<>>
    /\ LET fieldnames == Head(content)
           normalized == [i \in 1..Len(fieldnames) |-> Strip(fieldnames[i])]
           lowered == [i \in 1..Len(fieldnames) |-> Lower(normalized[i])]
           has_date == \/ \E i \in DOMAIN normalized :
                                normalized[i] = Chars("Date")
                       \/ \E i \in DOMAIN lowered : lowered[i] = Chars("date")
           has_amount == \/ \E i \in DOMAIN normalized :
                                  normalized[i] = Chars("Amount")
                         \/ \E i \in DOMAIN lowered :
                                  lowered[i] = Chars("amount")
       IN  ~(has_date /\ has_amount)

\* the rows of _parse_headerless_csv: every line that has a non-empty cell,
\* the first line included, its cells named by position after AMEX_COLUMNS
HeaderlessRows(content) ==
    LET lines == SelectSeq(content,
                     LAMBDA line : \E i \in 1..Len(line) : line[i] # <<>>)
        Named(line) ==
            [k \in {AMEX_COLUMNS[i] :
                        i \in 1..(IF Len(line) < Len(AMEX_COLUMNS)
                                  THEN Len(line) ELSE Len(AMEX_COLUMNS))} |->
                line[CHOOSE i \in 1..Len(AMEX_COLUMNS) : AMEX_COLUMNS[i] = k]]
    IN  [n \in 1..Len(lines) |-> Named(lines[n])]

\* the dictionaries handed to parse_row, in order
ReaderRows(content) ==
    IF content = <<>> THEN <<>>
    ELSE IF HeaderMissing(content) THEN HeaderlessRows(content)
    ELSE DictReader(content)

\* parse_csv raises AttributeError (none of its callers catches it)
parse_csv_raises(content) ==
    \E n \in DOMAIN ReaderRows(content) :
        parse_row_raises(ReaderRows(content)[n])

\* parse_csv, when it returns: row_number counts the rows handed to parse_row
\* ReaderRows of each file of the upload form, read once
ReaderRowsOfFiles ==
    [content \in {FileContent(up.file) : up \in UploadPool} |->
        ReaderRows(content)]

\* ReaderRows(content), looked up for an uploaded file
ReadRows(content) ==
    IF content \in DOMAIN ReaderRowsOfFiles
    THEN ReaderRowsOfFiles[content]
    ELSE ReaderRows(content)

parse_csv(content, account, txs, categories) ==
    LET rows == ReadRows(content)
        category_map == _build_category_map(categories)
    IN  [n \in 1..Len(rows) |->
            parse_row(rows[n], n, account, txs, category_map)]

----------------------------------------------------------------------------
(* validate_csv_file *)

\* 5 * 1024 * 1024 bytes
MaxFileSize == 5242880
\* max_rows
MaxFileRows == 10000

\* the length of the text of the lines (cells, commas and line ends)
RECURSIVE FileSize(_)
FileSize(content) ==
    IF content = <<>> THEN 0
    ELSE LET line == Head(content)
             RECURSIVE CellsSize(_)
             CellsSize(cells) ==
                 IF cells = <<>> THEN 0
                 ELSE Len(Head(cells)) + 1 + CellsSize(Tail(cells))
         IN  (IF line = <<>> THEN 1 ELSE CellsSize(line))
             + FileSize(Tail(content))

\* content.strip() is empty: nothing but blank lines and white space
IsBlank(content) ==
    \A n \in DOMAIN content :
        \/ content[n] = <<>>
        \/ Len(content[n]) = 1 /\ Strip(content[n][1]) = <<>>

\* the 'valid' and 'row_count' entries of the result; rows = list(csv.reader)
validate_csv_file(name, content) ==
    LET header_row == IF content = <<>> THEN <<>> ELSE Head(content)
        normalized_headers ==
            {Lower(Strip(header_row[i])) : i \in 1..Len(header_row)}
        Invalid == [valid |-> FALSE, row_count |-> 0]
    IN  IF ~EndsWith(Lower(Chars(name)), Chars(".csv")) THEN Invalid
        ELSE IF FileSize(content) > MaxFileSize THEN Invalid
        ELSE IF IsBlank(content) THEN Invalid
        ELSE IF Len(content) < 2 THEN Invalid
        ELSE IF Chars("date") \notin normalized_headers
                \/ Chars("amount") \notin normalized_headers THEN Invalid
        ELSE IF Chars("description") \notin normalized_headers
                /\ Chars("appears on your statement as")
                       \notin normalized_headers THEN Invalid
        ELSE IF Len(content) > MaxFileRows THEN Invalid
        ELSE [valid |-> TRUE, row_count |-> Len(content) - 1]

----------------------------------------------------------------------------
(* CSVImporter.import_rows: the loop inside db_transaction.atomic() *)

NoResults == [imported |-> 0, skipped |-> 0, errors |-> <<>>, created |-> <<>>]

\* Transaction.objects.create(...) of one row; src_run and src_row are history
\* fields (which call and which row created the Transaction)
NewTransaction(id, account, tx_type, category, row, run) ==
    [id |-> id,
     account |-> account,
     transaction_type |-> tx_type,
     category |-> category,
     amount |-> row.amount,
     transaction_date |-> row.date,
     description |-> row.description,
     reference_number |-> row.reference,
     src_run |-> run,
     src_row |-> row.row_number]

\* the transaction type of a written row
TxType(row) ==
    IF StartsWith(Strip(Get(row.raw_data, "Amount")), "-")
    THEN "income" ELSE "expense"

\* no category_* field in the form
NoOverrides == <<>>

\* ChosenCategory that takes the suggestion first and the override only for
\* a row without one
ChosenCategorySuggestionFirst(row, category_overrides, categories) ==
    LET category_id == IF row.suggested_category_id # NoId
                       THEN row.suggested_category_id
                       ELSE IF row.row_number \in DOMAIN category_overrides
                       THEN category_overrides[row.row_number]
                       ELSE NoId
    IN  IF category_id # NoId
           /\ \E c \in categories : c.is_active /\ c.id = category_id
        THEN category_id ELSE NoId

\* categories.get(category_id) if category_id else None, with category_id the
\* override of the row's number or else the suggestion: the id of an active
\* Category or NoId
ChosenCategory(row, category_overrides, categories) ==
    LET category_id == IF row.row_number \in DOMAIN category_overrides
                       THEN category_overrides[row.row_number]
                       ELSE row.suggested_category_id
    IN  IF category_id # NoId
           /\ \E c \in categories : c.is_active /\ c.id = category_id
        THEN category_id ELSE NoId

\* Category.objects.filter(name='Refunds', is_active=True).first(), as an id
RefundsCategory(categories) ==
    LET cs == {c \in categories : c.name = "Refunds" /\ c.is_active}
    IN  IF cs = {} THEN NoId ELSE FirstCategory(cs).id

\* the category of the Transaction written for a row: for a row written as
\* income whose chosen category is of type expense, "category = refund_cat"
RowCategory(row, category_overrides, categories) ==
    LET chosen == ChosenCategory(row, category_overrides, categories)
    IN  IF /\ TxType(row) = "income"
           /\ chosen # NoId
           /\ \E c \in categories :
                  c.id = chosen /\ c.category_type = "expense"
        THEN RefundsCategory(categories)
        ELSE chosen

\* ImportStep with "imported += 1" placed before the create
ImportStepCountingFirst(acc, row, i, account, skip_duplicates, category_overrides, categories, write, run, first_id) ==
    IF ~is_valid(row)
    THEN [acc EXCEPT !.errors = Append(@,
            [row |-> row.row_number,
             error |-> IF row.error # NoError THEN row.error
                       ELSE <<"Invalid row data">>])]
    ELSE IF row.is_duplicate /\ skip_duplicates
    THEN [acc EXCEPT !.skipped = @ + 1]
    ELSE IF write[i] = "ok"
    THEN [acc EXCEPT
            !.created = Append(@, NewTransaction(first_id + Len(acc.created),
                                                 account, TxType(row),
                                                 RowCategory(row, category_overrides,
                                                             categories),
                                                 row, run)),
            !.imported = @ + 1]
    ELSE [acc EXCEPT !.imported = @ + 1,
                     !.errors = Append(@,
            [row |-> row.row_number, error |-> <<"create raised">>])]

\* ImportStep in which a create that raised makes every later create raise
ImportStepFailingAfterRaise(acc, row, i, account, skip_duplicates, category_overrides, categories, write, run, first_id) ==
    IF ~is_valid(row)
    THEN [acc EXCEPT !.errors = Append(@,
            [row |-> row.row_number,
             error |-> IF row.error # NoError THEN row.error
                       ELSE <<"Invalid row data">>])]
    ELSE IF row.is_duplicate /\ skip_duplicates
    THEN [acc EXCEPT !.skipped = @ + 1]
    ELSE IF write[i] = "ok" /\ \A j \in 1..(i - 1) : write[j] = "ok"
    THEN [acc EXCEPT
            !.created = Append(@, NewTransaction(first_id + Len(acc.created),
                                                 account, TxType(row),
                                                 RowCategory(row, category_overrides,
                                                             categories),
                                                 row, run)),
            !.imported = @ + 1]
    ELSE [acc EXCEPT !.errors = Append(@,
            [row |-> row.row_number, error |-> <<"create raised">>])]

\* ImportStep that skips duplicates whatever skip_duplicates says
ImportStepAlwaysSkipping(acc, row, i, account, skip_duplicates, category_overrides, categories, write, run, first_id) ==
    IF ~is_valid(row)
    THEN [acc EXCEPT !.errors = Append(@,
            [row |-> row.row_number,
             error |-> IF row.error # NoError THEN row.error
                       ELSE <<"Invalid row data">>])]
    ELSE IF row.is_duplicate
    THEN [acc EXCEPT !.skipped = @ + 1]
    ELSE IF write[i] = "ok"
    THEN [acc EXCEPT
            !.created = Append(@, NewTransaction(first_id + Len(acc.created),
                                                 account, TxType(row),
                                                 RowCategory(row, category_overrides,
                                                             categories),
                                                 row, run)),
            !.imported = @ + 1]
    ELSE [acc EXCEPT !.errors = Append(@,
            [row |-> row.row_number, error |-> <<"create raised">>])]

\* ImportStep that runs the duplicate check again against the table as it is
\* when the row is written
ImportStepCheckingAgain(acc, row, i, account, skip_duplicates, category_overrides, categories, write, run, first_id) ==
    IF ~is_valid(row)
    THEN [acc EXCEPT !.errors = Append(@,
            [row |-> row.row_number,
             error |-> IF row.error # NoError THEN row.error
                       ELSE <<"Invalid row data">>])]
    ELSE IF (row.is_duplicate \/ check_duplicate(row, account, transactions)[1])
            /\ skip_duplicates
    THEN [acc EXCEPT !.skipped = @ + 1]
    ELSE IF write[i] = "ok"
    THEN [acc EXCEPT
            !.created = Append(@, NewTransaction(first_id + Len(acc.created),
                                                 account, TxType(row),
                                                 RowCategory(row, category_overrides,
                                                             categories),
                                                 row, run)),
            !.imported = @ + 1]
    ELSE [acc EXCEPT !.errors = Append(@,
            [row |-> row.row_number, error |-> <<"create raised">>])]

\* one iteration of "for row in parsed_rows"; write[i] tells whether
\* Transaction.objects.create raises for the i-th row
ImportStep(acc, row, i, account, skip_duplicates, category_overrides, categories, write, run, first_id) ==
    IF ~is_valid(row)
    THEN [acc EXCEPT !.errors = Append(@,
            [row |-> row.row_number,
             error |-> IF row.error # NoError THEN row.error
                       ELSE <<"Invalid row data">>])]
    ELSE IF row.is_duplicate /\ skip_duplicates
    THEN [acc EXCEPT !.skipped = @ + 1]
    ELSE IF write[i] = "ok"
    THEN [acc EXCEPT
            !.created = Append(@, NewTransaction(first_id + Len(acc.created),
                                                 account, TxType(row),
                                                 RowCategory(row, category_overrides,
                                                             categories),
                                                 row, run)),
            !.imported = @ + 1]
    ELSE [acc EXCEPT !.errors = Append(@,
            [row |-> row.row_number, error |-> <<"create raised">>])]

RECURSIVE ImportLoop(_, _, _, _, _, _, _, _, _)
ImportLoop(parsed_rows, n, account, skip_duplicates, category_overrides, categories, write, run, first_id) ==
    IF n = 0 THEN NoResults
    ELSE ImportStep(ImportLoop(parsed_rows, n - 1, account, skip_duplicates,
                               category_overrides, categories, write, run,
                               first_id),
                    parsed_rows[n], n, account, skip_duplicates,
                    category_overrides, categories, write, run, first_id)

\* the rows for which import_rows reaches Transaction.objects.create
Attempted(parsed_rows, skip_duplicates) ==
    {i \in 1..Len(parsed_rows) :
        is_valid(parsed_rows[i])
        /\ ~(parsed_rows[i].is_duplicate /\ skip_duplicates)}

\* the outcomes of the writes of one call: only an attempted write can raise
WriteOutcomes(parsed_rows, skip_duplicates) ==
    {w \in [1..Len(parsed_rows) -> {"ok", "raise"}] :
        \A i \in 1..Len(parsed_rows) :
            w[i] = "raise" => i \in Attempted(parsed_rows, skip_duplicates)}

\* the table if the loop ran outside db_transaction.atomic()
NotRolledBack(before, created) ==
    before \cup {created[i] : i \in 1..Len(created)}

\* the table after the atomic block is left by an exception: rolled back
RolledBack(before, created) == before

\* the table after the atomic block commits
Committed(before, created) ==
    before \cup {created[i] : i \in 1..Len(created)}

\* RecordResults that leaves the status as the view set it
RecordResultsKeepingStatus(csv_import, results) ==
    [csv_import EXCEPT !.imported_count = results.imported,
                       !.skipped_count = results.skipped,
                       !.error_count = Len(results.errors),
                       !.errors = results.errors]

\* the CSVImport fields import_rows sets before self.csv_import.save()
RecordResults(csv_import, results) ==
    [csv_import EXCEPT !.imported_count = results.imported,
                       !.skipped_count = results.skipped,
                       !.error_count = Len(results.errors),
                       !.errors = results.errors,
                       !.status = "completed"]

----------------------------------------------------------------------------
(* State *)

Terminal == {"done", "raised", "redirected", "rendered"}

\* requests are served one at a time unless the deployment runs them in
\* parallel, and then by MaxWorkers workers
CanStart ==
    Cardinality({r \in DOMAIN runs : runs[r].pc \notin Terminal})
        < (IF concurrent THEN MaxWorkers ELSE 1)

NewRun(import_id, pc, csv_import, parsed_rows) ==
    [import_id |-> import_id,
     pc |-> pc,
     csv_import |-> csv_import,
     parsed_rows |-> parsed_rows,
     skip_duplicates |-> TRUE,
     write |-> <<>>,
     before |-> {},
     results |-> NoResults]

\* no direct call was made
NoCall == [op |-> "none"]

InitTables ==
    /\ transactions = {}
    /\ next_tx_id = 1
    /\ csv_imports = <<>>
    /\ runs = <<>>
    /\ call = NoCall
    /\ tasks = <<>>
    /\ clock = 0
    /\ tax_alerts = {}
    /\ audit_logs = {}
    /\ recurring = <<>>

Init == InitTables /\ concurrent = FALSE

InitConcurrent == InitTables /\ concurrent = TRUE

----------------------------------------------------------------------------
(* csv_import_upload *)

\* validate_csv_file of each upload of the form, computed once
ValidatedUploads ==
    [up \in UploadPool |-> validate_csv_file(up.file, FileContent(up.file))]

\* POST with a file that validate_csv_file accepts
CsvImportUpload ==
    \E up \in UploadPool :
        /\ CanStart
        /\ Len(csv_imports) < MaxImports
        /\ ValidatedUploads[up].valid
        /\ csv_imports' = Append(csv_imports,
              [account |-> up.account,
               file |-> up.file,
               row_count |-> ValidatedUploads[up].row_count,
               status |-> "pending",
               imported_count |-> 0,
               skipped_count |-> 0,
               error_count |-> 0,
               errors |-> <<>>])
        /\ UNCHANGED <<transactions, next_tx_id, runs, concurrent, call, other_vars>>

----------------------------------------------------------------------------
(* csv_import_preview, GET *)

\* PreviewGet that marks the import as the POST branch does
PreviewGetMarkingProcessing ==
    \E id \in DOMAIN csv_imports :
        /\ CanStart
        /\ Len(runs) < MaxRuns
        /\ csv_imports[id].status = "pending"
        /\ LET obj == [csv_imports[id] EXCEPT !.status = "processing"] IN
            /\ runs' = Append(runs,
                  NewRun(id, "rendered", obj,
                         parse_csv(FileContent(obj.file), obj.account,
                                   transactions, DefaultCategories)))
            /\ csv_imports' = [csv_imports EXCEPT ![id] = obj]
        /\ UNCHANGED <<transactions, next_tx_id, concurrent, call, other_vars>>

\* get_object_or_404, the status test, parse_csv, the counts and render()
PreviewGet ==
    \E id \in DOMAIN csv_imports :
        /\ CanStart
        /\ Len(runs) < MaxRuns
        /\ csv_imports[id].status = "pending"
        /\ runs' = Append(runs,
              NewRun(id, "rendered", csv_imports[id],
                     parse_csv(FileContent(csv_imports[id].file),
                               csv_imports[id].account, transactions,
                               DefaultCategories)))
        /\ UNCHANGED <<transactions, next_tx_id, csv_imports, concurrent, call, other_vars>>

----------------------------------------------------------------------------
(* csv_import_preview, POST *)

\* PreviewParse without the test of the status
PreviewParseAnyStatus ==
    \E id \in DOMAIN csv_imports :
        /\ CanStart
        /\ Len(runs) < MaxRuns
        /\ runs' = Append(runs,
              NewRun(id, "parsed", csv_imports[id],
                     parse_csv(FileContent(csv_imports[id].file),
                               csv_imports[id].account, transactions,
                               DefaultCategories)))
        /\ UNCHANGED <<transactions, next_tx_id, csv_imports, concurrent, call, other_vars>>

\* get_object_or_404, the status test and parse_csv
PreviewParse ==
    \E id \in DOMAIN csv_imports :
        /\ CanStart
        /\ Len(runs) < MaxRuns
        /\ csv_imports[id].status = "pending"
        /\ runs' = Append(runs,
              NewRun(id, "parsed", csv_imports[id],
                     parse_csv(FileContent(csv_imports[id].file),
                               csv_imports[id].account, transactions,
                               DefaultCategories)))
        /\ UNCHANGED <<transactions, next_tx_id, csv_imports, concurrent, call, other_vars>>

\* the request finds the import already processed and redirects
PreviewRedirect ==
    \E id \in DOMAIN csv_imports :
        /\ CanStart
        /\ Len(runs) < MaxRuns
        /\ csv_imports[id].status # "pending"
        /\ runs' = Append(runs, NewRun(id, "redirected", csv_imports[id], <<>>))
        /\ UNCHANGED <<transactions, next_tx_id, csv_imports, concurrent, call, other_vars>>

\* csv_import.status = 'processing'; csv_import.save()
PreviewMarkProcessing ==
    \E r \in DOMAIN runs :
        /\ runs[r].pc = "parsed"
        /\ LET obj == [runs[r].csv_import EXCEPT !.status = "processing"] IN
            /\ runs' = [runs EXCEPT ![r].csv_import = obj,
                                    ![r].pc = "processing"]
            /\ csv_imports' = [csv_imports EXCEPT ![runs[r].import_id] = obj]
        /\ UNCHANGED <<transactions, next_tx_id, concurrent, call, other_vars>>

\* import_rows returns: the atomic block commits and the record is saved
ImportRowsCommit(r, skip_duplicates, write) ==
    /\ runs[r].pc = "processing"
    /\ LET results == ImportLoop(runs[r].parsed_rows,
                                 Len(runs[r].parsed_rows),
                                 runs[r].csv_import.account,
                                 skip_duplicates, NoOverrides,
                                 DefaultCategories, write, r, next_tx_id)
           obj == RecordResults(runs[r].csv_import, results)
       IN
        /\ transactions' = Committed(transactions, results.created)
        /\ next_tx_id' = next_tx_id + Len(results.created)
        /\ csv_imports' = [csv_imports EXCEPT ![runs[r].import_id] = obj]
        /\ runs' = [runs EXCEPT ![r].csv_import = obj,
                                ![r].pc = "done",
                                ![r].skip_duplicates = skip_duplicates,
                                ![r].write = write,
                                ![r].before = transactions,
                                ![r].results = results]
    /\ UNCHANGED <<concurrent, call, other_vars>>

\* the confirm form with any setting of the skip_duplicates checkbox; any
\* attempted write may raise
ImportRowsReturn ==
    \E r \in {x \in DOMAIN runs : runs[x].pc = "processing"},
       skip_duplicates \in BOOLEAN :
      \E write \in WriteOutcomes(runs[r].parsed_rows, skip_duplicates) :
        ImportRowsCommit(r, skip_duplicates, write)

\* the confirm form as it is rendered (skip_duplicates checked), no write
\* raising
ImportRowsChecked ==
    \E r \in DOMAIN runs :
        ImportRowsCommit(r, TRUE, [i \in DOMAIN runs[r].parsed_rows |-> "ok"])

\* an exception leaves the atomic block after the loop (the commit fails, the
\* connection is lost): the block rolls back, and neither import_rows nor the
\* view catches the exception; results keeps what the loop had done
ImportRowsRaise ==
    \E r \in DOMAIN runs, skip_duplicates \in BOOLEAN :
        /\ runs[r].pc = "processing"
        /\ LET results == ImportLoop(runs[r].parsed_rows,
                                     Len(runs[r].parsed_rows),
                                     runs[r].csv_import.account,
                                     skip_duplicates, NoOverrides,
                                     DefaultCategories,
                                     [i \in DOMAIN runs[r].parsed_rows |-> "ok"],
                                     r, next_tx_id)
           IN
            /\ transactions' = RolledBack(transactions, results.created)
            /\ next_tx_id' = next_tx_id + Len(results.created)
            /\ runs' = [runs EXCEPT ![r].pc = "raised",
                                    ![r].results = results]
        /\ UNCHANGED <<csv_imports, concurrent, call, other_vars>>

----------------------------------------------------------------------------

Next ==
    \/ CsvImportUpload
    \/ PreviewGet
    \/ PreviewParse
    \/ PreviewRedirect
    \/ PreviewMarkProcessing
    \/ ImportRowsReturn
    \/ ImportRowsRaise

\* requests served one after another
Spec == Init /\ [][Next]_vars

\* requests served by parallel workers
SpecConcurrent == InitConcurrent /\ [][Next]_vars

\* parallel workers, every confirm with skip_duplicates and no failing write
NextChecked ==
    \/ CsvImportUpload
    \/ PreviewParse
    \/ PreviewRedirect
    \/ PreviewMarkProcessing
    \/ ImportRowsChecked

SpecRace == InitConcurrent /\ [][NextChecked]_vars

----------------------------------------------------------------------------
(* Direct calls of the parser and the importer, as the tests make them *)

\* the lines the parsed files are made of
LinePool ==
    { Line(<<"Date", "Description", "Amount">>),
      Line(<<"date", "description", "amount">>),
      <<>>,
      Line(<<"", "", "">>),
      Line(<<"01/05/2026", "ab", "1.50">>),
      Line(<<"13/01/2026", "ab", "1.50">>),
      Line(<<"01/07/2026">>) }

\* the files of at most MaxLines lines
CallContents == UNION {[1..n -> LinePool] : n \in 0..MaxLines}

\* Category tables: the default one, one whose 'Refunds' is inactive, and one
\* with a second 'Refunds' of type expense
CategoryTables ==
    { DefaultCategories,
      (DefaultCategories \ {Category(4, "Refunds", "income", TRUE, 1)})
          \cup {Category(4, "Refunds", "income", FALSE, 1)},
      DefaultCategories \cup {Category(5, "Refunds", "expense", TRUE, 9)} }

\* a statement with a Category column: a charge and a credit with a category
\* the map knows, and a credit without one
CategoryContent ==
    << Line(<<"Date", "Description", "Amount", "Category">>),
       Line(<<"01/05/2026", "ab", "1.50", "Travel">>),
       Line(<<"01/06/2026", "cd", "-2", "Merchandise">>),
       Line(<<"01/07/2026", "x", "-3", "">>) >>

\* parser = AmexCSVParser(account); parser.parse_csv(content), for a content
\* of the pool under the default Category table or for the statement with a
\* Category column under any of the tables
ParseCsvCall ==
    \E content \in CallContents \cup {CategoryContent} :
    \E categories \in IF content = CategoryContent
                      THEN CategoryTables ELSE {DefaultCategories} :
        /\ call = NoCall
        /\ call' = [op |-> "parse_csv",
                    content |-> content,
                    categories |-> categories,
                    raised |-> parse_csv_raises(content),
                    rows |-> IF parse_csv_raises(content) THEN <<>>
                             ELSE parse_csv(content, 1, transactions,
                                            categories)]
        /\ UNCHANGED <<transactions, next_tx_id, csv_imports, runs, concurrent, other_vars>>

\* the ids a category override may carry: the Categories of the tables and an
\* id of no Category
OverrideIds == {1, 2, 3, 4, 9}

\* the category_overrides dictionaries: row number -> Category id
OverridePool ==
    UNION {[rows -> OverrideIds] : rows \in SUBSET (1..3)}

\* the CSVImport record the importer is built with
StatementImport ==
    [account |-> 1,
     file |-> "statement.csv",
     row_count |-> Len(CategoryContent) - 1,
     status |-> "pending",
     imported_count |-> 0,
     skipped_count |-> 0,
     error_count |-> 0,
     errors |-> <<>>]

\* CSVImporter(csv_import, user).import_rows(parsed_rows, category_overrides)
\* on the rows parsed from the statement with a Category column
ImportRowsCall ==
    \E category_overrides \in OverridePool :
        /\ call.op = "parse_csv"
        /\ call.content = CategoryContent
        /\ ~call.raised
        /\ LET categories == call.categories
               parsed_rows == call.rows
               results == ImportLoop(parsed_rows, Len(parsed_rows), 1, TRUE,
                                     category_overrides, categories,
                                     [i \in DOMAIN parsed_rows |-> "ok"],
                                     0, next_tx_id)
           IN
            /\ transactions' = Committed(transactions, results.created)
            /\ next_tx_id' = next_tx_id + Len(results.created)
            /\ csv_imports' = Append(csv_imports,
                                     RecordResults(StatementImport, results))
            /\ call' = [op |-> "import_rows",
                        categories |-> categories,
                        category_overrides |-> category_overrides,
                        parsed_rows |-> parsed_rows,
                        results |-> results]
        /\ UNCHANGED <<runs, concurrent, other_vars>>

\* the digit character of 0..9
DigitChar(n) == CHOOSE c \in DigitChars : DigitVal(c) = n

\* n written with two digits, or with one when it has one and is not padded
TwoDigitText(n, padded) ==
    IF n < 10 /\ ~padded
    THEN <<DigitChar(n)>>
    ELSE <<DigitChar(n \div 10), DigitChar(n % 10)>>

\* n written with four digits
FourDigitText(n) ==
    <<DigitChar(n \div 1000), DigitChar((n \div 100) % 10),
      DigitChar((n \div 10) % 10), DigitChar(n % 10)>>

\* the date strings handed to parse_date: the forms, and the numbers written
DateForms == {"%m/%d/%Y", "%m/%d/%y", "%Y-%m-%d"}
DateMonths == {1, 2, 12}
DateDays == {5, 29, 31}
DateYears(form) == IF form = "%m/%d/%y" THEN 0..99 ELSE {1999, 2024, 2026}

\* year, month and day written in a form
DateText(form, year, month, day, padded) ==
    CASE form = "%m/%d/%Y" ->
            TwoDigitText(month, padded) \o <<"/">>
                \o TwoDigitText(day, padded) \o <<"/">> \o FourDigitText(year)
      [] form = "%m/%d/%y" ->
            TwoDigitText(month, padded) \o <<"/">>
                \o TwoDigitText(day, padded) \o <<"/">>
                \o TwoDigitText(year, TRUE)
      [] form = "%Y-%m-%d" ->
            FourDigitText(year) \o <<"-">> \o TwoDigitText(month, padded)
                \o <<"-">> \o TwoDigitText(day, padded)

\* parser.parse_date(date_str)
ParseDateCall ==
    \E form \in DateForms, month \in DateMonths, day \in DateDays,
       padded \in BOOLEAN :
    \E year \in DateYears(form) :
        /\ call = NoCall
        /\ call' = [op |-> "parse_date",
                    form |-> form, year |-> year, month |-> month,
                    day |-> day,
                    date_str |-> DateText(form, year, month, day, padded),
                    date |-> parse_date(
                                DateText(form, year, month, day, padded))]
        /\ UNCHANGED <<import_vars, other_vars>>

\* the cells of a data row under the header Date, Description, Amount
RowDates == {"01/05/2026", "13/01/2026", ""}
RowDescriptions == {"ab", " ", ""}
RowAmounts == {"1.50", "x", ""}

\* parser.parse_row(row, 1) on a row csv.DictReader yields under the header
\* Date, Description, Amount, with or without the column Appears On Your
\* Statement As, from a line of one to four cells
ParseRowCall ==
    \E date \in RowDates, description \in RowDescriptions,
       amount \in RowAmounts, statement_as \in {"", "CD"},
       fields \in 3..4, cells \in 1..4 :
        LET fieldnames == SubSeq(Line(<<"Date", "Description", "Amount",
                                        "Appears On Your Statement As">>),
                                 1, fields)
            line == SubSeq(Line(<<date, description, amount, statement_as>>),
                           1, IF cells < fields THEN cells ELSE fields)
            row == DictRow(fieldnames, line)
        IN  /\ call = NoCall
            /\ call' = [op |-> "parse_row",
                        row |-> row,
                        raised |-> parse_row_raises(row),
                        parsed |-> IF parse_row_raises(row) THEN <<>>
                                   ELSE parse_row(row, 1, 1, transactions,
                                            _build_category_map(
                                                DefaultCategories))]
            /\ UNCHANGED <<import_vars, other_vars>>

\* the lines of the files handed to validate_csv_file: first lines with and
\* without the date, amount and description columns, in several letter cases
\* and with white space around the names, a blank line and a data line
ValidatedLines ==
    { Line(<<"Date", "Description", "Amount">>),
      Line(<<" DATE", "Appears On Your Statement As", "amount ">>),
      Line(<<"Date", "Amount">>),
      Line(<<"Description", "Amount">>),
      Line(<<"date", "description">>),
      <<>>,
      Line(<<" ">>),
      Line(<<"01/05/2026", "ab", "1.50">>) }

\* the uploaded file names
ValidatedNames == {"amex.CSV", "amex.txt"}

\* validate_csv_file(file) on an uploaded file of at most MaxLines lines, and
\* the header test parse_csv makes on the same content in csv_import_preview
ValidateCsvFileCall ==
    \E name \in ValidatedNames :
    \E content \in UNION {[1..n -> ValidatedLines] : n \in 0..MaxLines} :
        /\ call = NoCall
        /\ call' = [op |-> "validate_csv_file",
                    name |-> name,
                    content |-> content,
                    validation |-> validate_csv_file(name, content),
                    headerless |-> HeaderMissing(content)]
        /\ UNCHANGED <<import_vars, other_vars>>

NextCalls ==
    \/ ParseCsvCall
    \/ ImportRowsCall
    \/ ParseRowCall
    \/ ParseDateCall
    \/ ValidateCsvFileCall

\* direct calls on the empty ledger: parse_csv and import_rows on the rows
\* it returned, parse_row, parse_date, validate_csv_file
SpecCalls == Init /\ [][NextCalls]_vars

----------------------------------------------------------------------------
(* Properties of import_rows *)

\* the committed Transactions that call r created
RunTransactions(r) == {t \in transactions : t.src_run = r}

\* the row numbers of the rows of call r whose create was reached and did not
\* raise
RowsWritten(r) ==
    {runs[r].parsed_rows[i].row_number :
        i \in {j \in Attempted(runs[r].parsed_rows, runs[r].skip_duplicates) :
                  runs[r].write[j] = "ok"}}

\* the error entries of call r that carry row number n
ErrorEntries(r, n) ==
    {k \in 1..Len(runs[r].results.errors) : runs[r].results.errors[k].row = n}

ValidRows(r) ==
    {i \in DOMAIN runs[r].parsed_rows : is_valid(runs[r].parsed_rows[i])}

\* C4: a file imported twice into the same account with skip_duplicates=true:
\* the second run imports nothing and skips as many rows as were valid in the
\* first run (stated for first runs in which no write raised).
C4_SecondImportSkipsAll ==
    \A r1 \in DOMAIN runs, r2 \in DOMAIN runs :
        ( /\ r1 < r2
          /\ runs[r1].pc = "done" /\ runs[r2].pc = "done"
          /\ runs[r1].skip_duplicates /\ runs[r2].skip_duplicates
          /\ runs[r1].csv_import.file = runs[r2].csv_import.file
          /\ runs[r1].csv_import.account = runs[r2].csv_import.account
          /\ \A i \in DOMAIN runs[r1].write : runs[r1].write[i] = "ok" )
        => /\ runs[r2].results.imported = 0
           /\ runs[r2].results.skipped = Cardinality(ValidRows(r1))

StatusRank(status) ==
    CASE status = "pending" -> 0
      [] status = "processing" -> 1
      [] OTHER -> 2

\* C5: the status of a CSVImport never moves back along
\* pending -> processing -> completed|failed.
C5_StatusMovesForward ==
    [][\A id \in DOMAIN csv_imports :
          StatusRank(csv_imports'[id].status)
              >= StatusRank(csv_imports[id].status)]_vars

\* C6: when an exception aborts the import of a confirmed batch, nothing is
\* written and the status of the batch is 'failed'.
C6_HardFailureMarksFailed ==
    \A r \in DOMAIN runs : runs[r].pc = "raised" =>
        /\ RunTransactions(r) = {}
        /\ csv_imports[runs[r].import_id].status = "failed"

\* the parsed row of call r that a Transaction was written for
SourceRow(t) ==
    LET rows == runs[t.src_run].parsed_rows
    IN  rows[CHOOSE i \in DOMAIN rows : rows[i].row_number = t.src_row]

\* C7: a Transaction written for a row whose raw Amount is_refund is
\* 'income', and a Transaction written for any other row is 'expense'.
C7_RefundIsIncome ==
    \A t \in transactions :
        t.transaction_type =
            IF is_refund(Get(SourceRow(t).raw_data, "Amount"))
            THEN "income" ELSE "expense"

\* C8: for a row with an error, without a date or without an amount,
\* import_rows creates no Transaction and records exactly one error entry
\* with the row's number.
C8_InvalidRowNeverImported ==
    \A r \in DOMAIN runs : runs[r].pc = "done" =>
        \A i \in DOMAIN runs[r].parsed_rows :
            LET row == runs[r].parsed_rows[i] IN
            (row.error # NoError \/ row.date = NoDate \/ row.amount = NoAmount)
            => /\ \A t \in transactions :
                      ~(t.src_run = r /\ t.src_row = row.row_number)
               /\ Cardinality(ErrorEntries(r, row.row_number)) = 1

C8_Witness ==
    \E r \in DOMAIN runs :
        /\ runs[r].pc = "done"
        /\ runs[r].results.imported >= 1
        /\ \E i \in DOMAIN runs[r].parsed_rows :
              /\ runs[r].parsed_rows[i].error # NoError
              /\ Cardinality(ErrorEntries(r, i)) = 1

\* the valid rows of call r that the parser marked as duplicates
DuplicateRows(r) ==
    {i \in ValidRows(r) : runs[r].parsed_rows[i].is_duplicate}

\* C9: with skip_duplicates a valid duplicate row creates no Transaction and
\* adds one to 'skipped'; without it the row is written like any other and
\* 'skipped' is 0.
C9_SkipDuplicates ==
    \A r \in DOMAIN runs : runs[r].pc = "done" =>
        IF runs[r].skip_duplicates
        THEN /\ runs[r].results.skipped = Cardinality(DuplicateRows(r))
             /\ \A i \in DuplicateRows(r) : \A t \in RunTransactions(r) :
                    t.src_row # runs[r].parsed_rows[i].row_number
        ELSE /\ runs[r].results.skipped = 0
             /\ \A i \in DuplicateRows(r) : runs[r].write[i] = "ok" =>
                    \E t \in RunTransactions(r) :
                        t.src_row = runs[r].parsed_rows[i].row_number

C9_Witness ==
    \E r \in DOMAIN runs :
        /\ runs[r].pc = "done"
        /\ runs[r].skip_duplicates
        /\ runs[r].results.skipped >= 1
        /\ runs[r].results.imported >= 1

\* the Transactions that make a row a duplicate according to the rule
DuplicatesOf(row, account) ==
    {t \in transactions :
        /\ t.account = account
        /\ \/ /\ t.transaction_date = row.date
              /\ t.amount = row.amount
              /\ IExact(t.description, row.description)
           \/ /\ row.reference # <<>>
              /\ t.reference_number = row.reference}

\* C10: right after parsing, a row is marked is_duplicate exactly when it has
\* no error and the ledger holds a Transaction of the account with the same
\* date, amount and (up to case) truncated description, or with the row's
\* non-empty reference; duplicate_transaction_id is then such a Transaction.
C10_DuplicateExactlyWhenMatch ==
    \A r \in DOMAIN runs : runs[r].pc = "parsed" =>
        \A i \in DOMAIN runs[r].parsed_rows :
            LET row == runs[r].parsed_rows[i]
                matches == DuplicatesOf(row, runs[r].csv_import.account)
            IN  /\ row.is_duplicate <=> (row.error = NoError /\ matches # {})
                /\ row.is_duplicate =>
                      \E t \in matches : t.id = row.duplicate_transaction_id

\* the rows i of call r1 and j of call r2 are the same valid row of their
\* files, neither was marked as a duplicate, and neither write raised
SameRowUnmarked(r1, i, r2, j) ==
    LET a == runs[r1].parsed_rows[i]
        b == runs[r2].parsed_rows[j]
    IN  /\ is_valid(a) /\ is_valid(b)
        /\ a.raw_data = b.raw_data
        /\ ~a.is_duplicate /\ ~b.is_duplicate
        /\ runs[r1].write[i] = "ok" /\ runs[r2].write[j] = "ok"

\* C11: two imports into the same account, both with skip_duplicates, whose
\* parsers both passed the duplicate check for a row they share leave two
\* Transactions of the account for that one row.
C11_RaceWritesTwice ==
    \A r1 \in DOMAIN runs, r2 \in DOMAIN runs :
        ( /\ r1 # r2
          /\ runs[r1].pc = "done" /\ runs[r2].pc = "done"
          /\ runs[r1].skip_duplicates /\ runs[r2].skip_duplicates
          /\ runs[r1].csv_import.account = runs[r2].csv_import.account )
        => \A i \in DOMAIN runs[r1].parsed_rows,
              j \in DOMAIN runs[r2].parsed_rows :
              SameRowUnmarked(r1, i, r2, j) =>
                  \E t1 \in RunTransactions(r1), t2 \in RunTransactions(r2) :
                      /\ t1.src_row = runs[r1].parsed_rows[i].row_number
                      /\ t2.src_row = runs[r2].parsed_rows[j].row_number
                      /\ t1.id # t2.id
                      /\ t1.account = t2.account
                      /\ t1.transaction_date = t2.transaction_date
                      /\ t1.amount = t2.amount
                      /\ t1.description = t2.description

\* both calls parsed before either committed, and the shared row has an
\* amount the duplicate check does not pass over
C11_Witness ==
    \E r1 \in DOMAIN runs, r2 \in DOMAIN runs :
        /\ r1 # r2
        /\ runs[r1].pc = "done" /\ runs[r2].pc = "done"
        /\ runs[r1].skip_duplicates /\ runs[r2].skip_duplicates
        /\ runs[r1].csv_import.account = runs[r2].csv_import.account
        /\ runs[r1].before = {}
        /\ \E i \in DOMAIN runs[r1].parsed_rows,
              j \in DOMAIN runs[r2].parsed_rows :
              /\ SameRowUnmarked(r1, i, r2, j)
              /\ runs[r1].parsed_rows[i].amount > 0
              /\ Cardinality({t \in transactions :
                     /\ t.account = runs[r1].csv_import.account
                     /\ t.transaction_date = runs[r1].parsed_rows[i].date
                     /\ t.amount = runs[r1].parsed_rows[i].amount
                     /\ t.description = runs[r1].parsed_rows[i].description})
                    = 2


\* C12: once a row has been imported, a later upload's row of the same
\* account, date, amount and description is marked is_duplicate with
\* duplicate_transaction_id the id of the Transaction written for the first
\* row, and with skip_duplicates no Transaction is written for it.
C12_SecondRowMarked ==
    \A r1 \in DOMAIN runs, r2 \in DOMAIN runs :
        ( /\ r1 < r2
          /\ runs[r1].pc = "done"
          /\ runs[r2].pc \in {"parsed", "processing", "done"}
          /\ runs[r1].csv_import.account = runs[r2].csv_import.account )
        => \A t \in RunTransactions(r1), j \in DOMAIN runs[r2].parsed_rows :
              LET row == runs[r2].parsed_rows[j] IN
              ( /\ is_valid(row)
                /\ row.date = t.transaction_date
                /\ row.amount = t.amount
                /\ row.description = t.description )
              => /\ row.is_duplicate
                 /\ row.duplicate_transaction_id = t.id
                 /\ (runs[r2].pc = "done" /\ runs[r2].skip_duplicates) =>
                        \A u \in RunTransactions(r2) :
                            u.src_row # row.row_number

\* C14: every Transaction written by import_rows has an amount strictly
\* greater than zero.
C14_AmountPositive ==
    \A t \in transactions : t.amount > 0

DataLines(content) ==
    SelectSeq(IF HeaderMissing(content) \/ content = <<>>
              THEN content ELSE Tail(content),
              LAMBDA line : line # <<>>)

\* C13: parse_csv returns one ParsedRow per data row of the file, in order,
\* the n-th of them numbered n and holding the cells of the n-th data row.
C13_OneRowPerDataRow ==
    call.op = "parse_csv" =>
        /\ ~call.raised
        /\ Len(call.rows) = Len(DataLines(call.content))
        /\ \A n \in DOMAIN call.rows :
              /\ call.rows[n].row_number = n
              /\ \A i \in DOMAIN DataLines(call.content)[n] :
                    \E k \in DOMAIN call.rows[n].raw_data :
                        call.rows[n].raw_data[k]
                            = DataLines(call.content)[n][i]

\* the parsed row of the direct import_rows call that Transaction t was
\* written for
CallRow(t) ==
    call.parsed_rows[CHOOSE i \in DOMAIN call.parsed_rows :
                        call.parsed_rows[i].row_number = t.src_row]

\* id names an active Category of the given type
IsActive(categories, id, category_type) ==
    \E c \in categories :
        c.id = id /\ c.is_active /\ c.category_type = category_type

\* C16 as stated: a Transaction written for a row that has a category
\* override carries the override category.
C16_OverrideCarried ==
    call.op = "import_rows" =>
        \A t \in transactions :
            t.src_row \in DOMAIN call.category_overrides =>
                t.category = call.category_overrides[t.src_row]

\* C16, amended: the Transaction written for a row that has a category
\* override carries the override category when that is an active Category and
\* the row is not a credit overridden with an expense category; it carries no
\* category when the override names no active Category; a credit overridden
\* with an expense category carries 'Refunds' or nothing; and a row without
\* override that is written as an expense carries the suggestion.
C16_OverridePrecedence ==
    call.op = "import_rows" =>
        \A t \in transactions :
            LET has_override == t.src_row \in DOMAIN call.category_overrides
                override == call.category_overrides[t.src_row]
                substituted ==
                    /\ t.transaction_type = "income"
                    /\ IsActive(call.categories, override, "expense")
            IN  /\ (has_override /\ ~substituted
                      /\ \E c \in call.categories :
                            c.id = override /\ c.is_active)
                     => t.category = override
                /\ (has_override
                      /\ ~\E c \in call.categories :
                            c.id = override /\ c.is_active)
                     => t.category = NoId
                /\ (has_override /\ substituted)
                     => \/ t.category = NoId
                        \/ \E c \in call.categories :
                              /\ c.id = t.category
                              /\ c.name = "Refunds" /\ c.is_active
                /\ (~has_override /\ t.transaction_type = "expense")
                     => t.category = CallRow(t).suggested_category_id

\* a charge suggested 'Travel' was written with the override 'Office
\* Supplies', and another row without override kept its suggestion
C16_Witness ==
    /\ call.op = "import_rows"
    /\ \E t \in transactions :
          /\ t.src_row \in DOMAIN call.category_overrides
          /\ CallRow(t).suggested_category_id = 2
          /\ call.category_overrides[t.src_row] = 1
          /\ t.category = 1
    /\ \E t \in transactions :
          /\ t.src_row \notin DOMAIN call.category_overrides
          /\ t.category # NoId

\* C17: the Transaction written for a refund row whose chosen category is of
\* type expense carries an active category named 'Refunds' if there is one,
\* and the chosen category if there is none.
C17_RefundsSubstituted ==
    call.op = "import_rows" =>
        \A t \in transactions :
            LET chosen == ChosenCategory(CallRow(t), call.category_overrides,
                                         call.categories)
            IN  ( /\ is_refund(Get(CallRow(t).raw_data, "Amount"))
                  /\ IsActive(call.categories, chosen, "expense") )
                => IF \E c \in call.categories :
                          c.name = "Refunds" /\ c.is_active
                   THEN \E c \in call.categories :
                          /\ c.id = t.category
                          /\ c.name = "Refunds" /\ c.is_active
                   ELSE t.category = chosen

(***************************************************************************)
(* The admin console: AdminTask and the task API                           *)
(***************************************************************************)

\* most AdminTask rows created
MaxTasks == 2
\* most started_at timestamps taken from timezone.now()
MaxClock == 2

STATUS_CHOICES == {"ready", "in_progress", "done", "blocked"}
\* of PRIORITY_CHOICES 1..4: Medium (the default) and High
Priorities == {2, 3}
\* depends_on = None
NoTask == 0
\* started_at = None
NoTime == 0
\* the limit parameter: none kept, one, the default
Limits == {0, 1, 10}

\* a new AdminTask row; its id and its created_at are its position in tasks.
\* Of its fields, those that ReadyTasksView reads or writes are kept.
AdminTask(priority, status, depends_on) ==
    [priority |-> priority, status |-> status, depends_on |-> depends_on,
     started_at |-> NoTime]

\* AdminTask.is_ready of task id in table ts
is_ready(ts, id) ==
    IF ts[id].status # "ready"
    THEN FALSE
    ELSE IF ts[id].depends_on # NoTask /\ ts[ts[id].depends_on].status # "done"
         THEN FALSE
         ELSE TRUE

\* order_by('-priority', 'created_at') of the tasks ids of table ts
RECURSIVE OrderByPriority(_, _)
OrderByPriority(ts, ids) ==
    IF ids = {}
    THEN <<>>
    ELSE LET first == CHOOSE i \in ids : \A j \in ids :
                          \/ ts[i].priority > ts[j].priority
                          \/ ts[i].priority = ts[j].priority /\ i <= j
         IN  <<first>> \o OrderByPriority(ts, ids \ {first})

\* the Python slice list[:limit]
SliceTo(list, limit) ==
    LET n == IF limit >= 0
             THEN (IF limit < Len(list) THEN limit ELSE Len(list))
             ELSE (IF Len(list) + limit > 0 THEN Len(list) + limit ELSE 0)
    IN  SubSeq(list, 1, n)

\* the list ReadyTasksView.get returns for table ts
ReadyTasks(ts, limit) ==
    LET queryset == OrderByPriority(ts,
                        {i \in DOMAIN ts : ts[i].status = "ready"})
        Ready(i) == is_ready(ts, i)
    IN  SliceTo(SelectSeq(queryset, Ready), limit)

\* task_create: the form saves a task of any status that may depend on a task
TaskCreate ==
    /\ Len(tasks) < MaxTasks
    /\ \E priority \in Priorities, status \in STATUS_CHOICES,
          depends_on \in {NoTask} \cup DOMAIN tasks :
            tasks' = Append(tasks, AdminTask(priority, status, depends_on))
    /\ call' = NoCall
    /\ UNCHANGED <<import_vars, clock, tax_alerts, audit_logs, recurring>>

\* TaskStatusView.post with a valid key, task id and status
TaskStatusPost ==
    \E task_id \in DOMAIN tasks, new_status \in STATUS_CHOICES :
        LET old_status == tasks[task_id].status
            starts == new_status = "in_progress" /\ old_status # "in_progress"
        IN  /\ starts => clock < MaxClock
            /\ clock' = IF starts THEN clock + 1 ELSE clock
            /\ tasks' = [tasks EXCEPT
                    ![task_id].status = new_status,
                    ![task_id].started_at = IF starts THEN clock' ELSE @]
            /\ call' = NoCall
            /\ UNCHANGED <<import_vars, tax_alerts, audit_logs, recurring>>

ReadyTasksGetStartingLast ==
    \E limit \in Limits, auto_start \in BOOLEAN :
        LET ready_tasks == ReadyTasks(tasks, limit)
            starts == auto_start /\ ready_tasks # <<>>
            first_task == ready_tasks[Len(ready_tasks)]
        IN  /\ starts => clock < MaxClock
            /\ clock' = IF starts THEN clock + 1 ELSE clock
            /\ tasks' = IF starts
                        THEN [tasks EXCEPT ![first_task].status = "in_progress",
                                           ![first_task].started_at = clock']
                        ELSE tasks
            /\ call' = [op |-> "ready_tasks", limit |-> limit,
                        auto_start |-> auto_start, tasks |-> ready_tasks]
            /\ UNCHANGED <<import_vars, tax_alerts, audit_logs, recurring>>

\* ReadyTasksView.get with a valid key
ReadyTasksGet ==
    \E limit \in Limits, auto_start \in BOOLEAN :
        LET ready_tasks == ReadyTasks(tasks, limit)
            starts == auto_start /\ ready_tasks # <<>>
            first_task == ready_tasks[1]
        IN  /\ starts => clock < MaxClock
            /\ clock' = IF starts THEN clock + 1 ELSE clock
            /\ tasks' = IF starts
                        THEN [tasks EXCEPT ![first_task].status = "in_progress",
                                           ![first_task].started_at = clock']
                        ELSE tasks
            /\ call' = [op |-> "ready_tasks", limit |-> limit,
                        auto_start |-> auto_start, tasks |-> ready_tasks]
            /\ UNCHANGED <<import_vars, tax_alerts, audit_logs, recurring>>

NextTasks ==
    \/ TaskCreate
    \/ TaskStatusPost
    \/ ReadyTasksGet

SpecTasks == Init /\ [][NextTasks]_vars

\* the ready tasks of table ts whose dependency, if any, is done, best first
ReadyInOrder(ts) ==
    OrderByPriority(ts, {i \in DOMAIN ts : is_ready(ts, i)})

\* a step that answered a ready-tasks request
ReadyTasksAnswered ==
    call'.op = "ready_tasks" /\ call' # call

\* task id is started by the step and every other task is left as it was
OnlyStarted(id) ==
    /\ tasks'[id].status = "in_progress"
    /\ tasks'[id].started_at = clock'
    /\ clock' > clock
    /\ tasks' = [tasks EXCEPT ![id].status = "in_progress",
                              ![id].started_at = clock']

\* C18: a ready-tasks request with auto_start=true starts exactly one task,
\* the highest-priority (then oldest) ready task whose dependency, if any, is
\* done, whenever there is such a task; it changes no other task, and a
\* request without auto_start changes no task.
C18_AutoStartStartsBest ==
    [][ReadyTasksAnswered =>
          IF call'.auto_start /\ ReadyInOrder(tasks) # <<>>
          THEN OnlyStarted(Head(ReadyInOrder(tasks)))
          ELSE tasks' = tasks]_vars

\* C18: a ready-tasks request returns the ready tasks whose dependency, if
\* any, is done, highest priority then oldest first, cut to limit; with
\* auto_start=true and a returned list that is not empty it starts the first
\* task of that list and changes no other task; with an empty returned list
\* or without auto_start it changes no task.
C18_AutoStartStartsFirstReturned ==
    [][ReadyTasksAnswered =>
          /\ call'.tasks = SliceTo(ReadyInOrder(tasks), call'.limit)
          /\ \A i \in 1..Len(call'.tasks) : is_ready(tasks, call'.tasks[i])
          /\ IF call'.auto_start /\ call'.tasks # <<>>
             THEN OnlyStarted(Head(ReadyInOrder(tasks)))
             ELSE tasks' = tasks]_vars

\* a request with auto_start=true returned two tasks and started the High
\* one, created after the Medium one, which stayed ready
C18_Witness ==
    /\ call.op = "ready_tasks" /\ call.auto_start
    /\ Len(call.tasks) = 2
    /\ tasks[call.tasks[1]].status = "in_progress"
    /\ tasks[call.tasks[1]].started_at = clock
    /\ call.tasks[1] > call.tasks[2]
    /\ tasks[call.tasks[2]].status = "ready"

(***************************************************************************)
(* Tax alerts: calculate_tax_alerts and alert_calculate                    *)
(***************************************************************************)

\* most Transaction rows in the ledger
MaxLedger == 2

\* of TRANSACTION_TYPE_CHOICES: the two types that are summed and one that is not
LedgerTypes == {"income", "expense", "transfer"}
\* the last day of the first quarter and the first day of the second
LedgerDates == {<<2026, 3, 31>>, <<2026, 4, 1>>}
\* amounts of the ledger, in cents
LedgerAmounts == {50000, 150000}
\* settings.FINANCE_TAX_ALERT_THRESHOLD or '1000', in cents
DefaultThreshold == 100000
\* --threshold, --quarter or --year not given
NoOption == -1
\* --threshold: not given, zero, 500.00
ThresholdOptions == {NoOption, 0, 50000}
QuarterOptions == {NoOption, 1, 2}
YearOptions == {NoOption, 2026}

\* transaction_create: a Transaction saved from a valid form
TransactionCreate ==
    /\ Cardinality(transactions) < MaxLedger
    /\ \E tx_type \in LedgerTypes, transaction_date \in LedgerDates,
          amount \in LedgerAmounts :
            transactions' = transactions \cup
                {NewTransaction(next_tx_id, 1, tx_type, NoId,
                    [amount |-> amount, date |-> transaction_date,
                     description |-> <<"x">>, reference |-> <<>>,
                     row_number |-> 0], 0)}
    /\ next_tx_id' = next_tx_id + 1
    /\ call' = NoCall
    /\ UNCHANGED <<csv_imports, runs, concurrent, other_vars>>

\* (month - 1) // 3 + 1
QuarterOf(d) == ((d[2] - 1) \div 3) + 1

\* _get_quarter_dates
_get_quarter_dates(quarter, year) ==
    [start_date |-> <<year, 3 * quarter - 2, 1>>,
     end_date |-> <<year, 3 * quarter, DaysInMonth(year, 3 * quarter)>>]

\* transaction_date__gte=start_date, transaction_date__lte=end_date
InDateRange(d, start_date, end_date) ==
    /\ ~DateBefore(d, start_date)
    /\ ~DateBefore(end_date, d)

\* aggregate(total=Sum('amount'))['total'] or Decimal('0.00')
RECURSIVE SumAmount(_)
SumAmount(txs) ==
    IF txs = {}
    THEN 0
    ELSE LET t == CHOOSE t \in txs : TRUE
         IN  t.amount + SumAmount(txs \ {t})

\* total_income - total_expenses of a quarter
NetProfit(txs, quarter, year) ==
    LET dates == _get_quarter_dates(quarter, year)
        Of(tx_type) == {t \in txs :
            /\ t.transaction_type = tx_type
            /\ InDateRange(t.transaction_date, dates.start_date,
                           dates.end_date)}
    IN  SumAmount(Of("income")) - SumAmount(Of("expense"))

\* _calculate_quarter, and the same lines of alert_calculate: db holds the
\* TaxAlert table and the clock
_calculate_quarter(db, txs, quarter, year, threshold) ==
    LET net_profit == NetProfit(txs, quarter, year)
        alert_triggered == net_profit >= threshold
        now == db.clock + 1
        found == {a \in db.alerts : a.quarter = quarter /\ a.year = year}
    IN  IF found = {}
        THEN [alerts |-> db.alerts \cup
                {[id |-> Cardinality(db.alerts) + 1,
                  quarter |-> quarter, year |-> year,
                  threshold_amount |-> threshold,
                  actual_net_profit |-> net_profit,
                  alert_triggered |-> alert_triggered,
                  alert_date |-> IF alert_triggered THEN now ELSE NoTime,
                  acknowledged |-> FALSE,
                  acknowledged_at |-> NoTime]},
              clock |-> IF alert_triggered THEN now ELSE db.clock]
        ELSE LET alert == CHOOSE a \in found : TRUE
                 old_triggered == alert.alert_triggered
                 newly == alert_triggered /\ ~old_triggered
             IN  [alerts |-> (db.alerts \ {alert}) \cup
                    {[alert EXCEPT
                        !.threshold_amount = threshold,
                        !.actual_net_profit = net_profit,
                        !.alert_triggered = alert_triggered,
                        !.alert_date = IF newly THEN now ELSE @]},
                  clock |-> IF newly THEN now ELSE db.clock]

\* the quarter after <<quarter, year>>
NextQuarter(q) ==
    IF q[1] + 1 > 4 THEN <<1, q[2] + 1>> ELSE <<q[1] + 1, q[2]>>

\* the quarters from current to last, as the while loop visits them
RECURSIVE QuartersInRange(_, _)
QuartersInRange(current, last) ==
    IF \/ current[2] < last[2]
       \/ current[2] = last[2] /\ current[1] <= last[1]
    THEN <<current>> \o QuartersInRange(NextQuarter(current), last)
    ELSE <<>>

\* the quarters _calculate_all_quarters calculates
AllQuarters(txs) ==
    IF txs = {}
    THEN <<>>
    ELSE LET start_date == (CHOOSE t \in txs : \A u \in txs :
                ~DateBefore(u.transaction_date, t.transaction_date)
                ).transaction_date
             end_date == (CHOOSE t \in txs : \A u \in txs :
                ~DateBefore(t.transaction_date, u.transaction_date)
                ).transaction_date
         IN  QuartersInRange(<<QuarterOf(start_date), start_date[1]>>,
                             <<QuarterOf(end_date), end_date[1]>>)

\* _calculate_quarter for each of quarters in turn
RECURSIVE CalculateQuarters(_, _, _, _)
CalculateQuarters(db, txs, quarters, threshold) ==
    IF quarters = <<>>
    THEN db
    ELSE CalculateQuarters(
            _calculate_quarter(db, txs, Head(quarters)[1], Head(quarters)[2],
                               threshold),
            txs, Tail(quarters), threshold)

\* Command.handle of calculate_tax_alerts
CalculateTaxAlertsCommand ==
    \E option \in ThresholdOptions, quarter \in QuarterOptions,
       year \in YearOptions, all \in BOOLEAN, today \in LedgerDates :
        LET threshold == IF option = NoOption \/ option = 0
                         THEN DefaultThreshold ELSE option
            quarters ==
                IF all
                THEN AllQuarters(transactions)
                ELSE IF quarter # NoOption /\ year # NoOption
                     THEN <<<<quarter, year>>>>
                     ELSE <<<<QuarterOf(today), today[1]>>>>
        IN  \E db \in {CalculateQuarters(
                            [alerts |-> tax_alerts, clock |-> clock],
                            transactions, quarters, threshold)} :
            /\ db.clock <= MaxClock
            /\ tax_alerts' = db.alerts
            /\ clock' = db.clock
            /\ call' = [op |-> "calculate_tax_alerts", quarters |-> quarters,
                        threshold |-> IF option = NoOption
                                      THEN DefaultThreshold ELSE option]
            /\ UNCHANGED <<import_vars, tasks, audit_logs, recurring>>

\* alert_calculate with a valid quarter and year, or without them
AlertCalculate ==
    \E quarter_field \in QuarterOptions, year_field \in YearOptions,
       today \in LedgerDates :
        LET quarter == IF quarter_field # NoOption
                       THEN quarter_field ELSE QuarterOf(today)
            year == IF year_field # NoOption THEN year_field ELSE today[1]
            threshold == DefaultThreshold
        IN  \E db \in {_calculate_quarter(
                            [alerts |-> tax_alerts, clock |-> clock],
                            transactions, quarter, year, threshold)} :
            /\ db.clock <= MaxClock
            /\ tax_alerts' = db.alerts
            /\ clock' = db.clock
            /\ call' = [op |-> "alert_calculate",
                        quarters |-> <<<<quarter, year>>>>,
                        threshold |-> threshold]
            /\ UNCHANGED <<import_vars, tasks, audit_logs, recurring>>

\* alert_acknowledge: a non-triggered alert is refused; timezone.now() is read
\* from the clock
AlertAcknowledge ==
    \E alert \in tax_alerts :
        /\ tax_alerts' =
              IF ~alert.alert_triggered
              THEN tax_alerts
              ELSE (tax_alerts \ {alert}) \cup
                      {[alert EXCEPT !.acknowledged = TRUE,
                                     !.acknowledged_at = clock + 1]}
        /\ call' = [op |-> "alert_acknowledge", alert_id |-> alert.id]
        /\ UNCHANGED <<import_vars, tasks, clock, audit_logs, recurring>>

\* alert_unacknowledge
AlertUnacknowledge ==
    \E alert \in tax_alerts :
        /\ tax_alerts' = (tax_alerts \ {alert}) \cup
                            {[alert EXCEPT !.acknowledged = FALSE,
                                           !.acknowledged_at = NoTime]}
        /\ call' = [op |-> "alert_unacknowledge", alert_id |-> alert.id]
        /\ UNCHANGED <<import_vars, tasks, clock, audit_logs, recurring>>

NextTaxAlerts ==
    \/ TransactionCreate
    \/ CalculateTaxAlertsCommand
    \/ AlertCalculate

\* the alert views: calculation, acknowledgement and its withdrawal
NextAlertViews ==
    \/ TransactionCreate
    \/ AlertCalculate
    \/ AlertAcknowledge
    \/ AlertUnacknowledge

SpecAlertViews == Init /\ [][NextAlertViews]_vars

SpecTaxAlerts == Init /\ [][NextTaxAlerts]_vars

\* the alerts of table alerts for a quarter
AlertsOf(alerts, q) ==
    {a \in alerts : a.quarter = q[1] /\ a.year = q[2]}

\* C19: there is at most one TaxAlert per (quarter, year); a calculation for
\* a quarter that has an alert keeps that alert and creates no other, and
\* after a calculation the alert of each calculated quarter holds income
\* minus expenses of the quarter as actual_net_profit and is triggered
\* exactly when that net profit is >= the threshold of the calculation (the
\* --threshold given to the command, else the configured threshold).
C19_OneAlertPerQuarter ==
    [][ /\ \A a, b \in tax_alerts' :
              (a.quarter = b.quarter /\ a.year = b.year) => a = b
        /\ (call'.op \in {"calculate_tax_alerts", "alert_calculate"}
              /\ call' # call)
           => /\ Cardinality(tax_alerts') = Cardinality(tax_alerts)
                    + Cardinality({i \in 1..Len(call'.quarters) :
                        AlertsOf(tax_alerts, call'.quarters[i]) = {}})
              /\ \A i \in 1..Len(call'.quarters) :
                    LET q == call'.quarters[i]
                        net_profit == NetProfit(transactions, q[1], q[2])
                    IN  /\ \A old \in AlertsOf(tax_alerts, q) :
                              \E a \in AlertsOf(tax_alerts', q) : a.id = old.id
                        /\ \E a \in AlertsOf(tax_alerts', q) :
                              /\ a.actual_net_profit = net_profit
                              /\ a.alert_triggered
                                   <=> (net_profit >= call'.threshold) ]_vars

(***************************************************************************)
(* The audit log: AuditLog.save and AuditLog.delete                        *)
(***************************************************************************)

\* most AuditLog rows, and the primary keys an instance may carry
MaxAuditLogs == 3

ACTION_CHOICES == {"create", "update", "delete"}

\* an AuditLog instance in memory: its primary key and, of its content, the
\* action field
AuditLogInstances == [pk : 1..MaxAuditLogs, action : ACTION_CHOICES]

\* AuditLog.objects.filter(pk=pk).exists()
AuditLogExists(logs, pk) == \E e \in logs : e.pk = pk

\* AuditLog.save without the check for a stored entry: Model.save updates the
\* stored row of that primary key
AuditLogSaveUnguarded ==
    \E log \in AuditLogInstances :
        /\ audit_logs' = {e \in audit_logs : e.pk # log.pk} \cup {log}
        /\ call' = [op |-> "save", log |-> log, raised |-> FALSE]
        /\ UNCHANGED <<import_vars, tasks, clock, tax_alerts, recurring>>

\* AuditLog.save on an instance, new (as AuditLog.objects.create saves it) or
\* loaded from the table and changed
AuditLogSave ==
    \E log \in AuditLogInstances :
        IF AuditLogExists(audit_logs, log.pk)
        THEN /\ call' = [op |-> "save", log |-> log, raised |-> TRUE]
             /\ UNCHANGED <<import_vars, other_vars>>
        ELSE /\ audit_logs' = audit_logs \cup {log}
             /\ call' = [op |-> "save", log |-> log, raised |-> FALSE]
             /\ UNCHANGED <<import_vars, tasks, clock, tax_alerts, recurring>>

\* AuditLog.delete on an instance, stored or not
AuditLogDelete ==
    \E log \in AuditLogInstances :
        /\ call' = [op |-> "delete", log |-> log, raised |-> TRUE]
        /\ UNCHANGED <<import_vars, other_vars>>

NextAuditLog ==
    \/ AuditLogSave
    \/ AuditLogDelete

SpecAuditLog == Init /\ [][NextAuditLog]_vars

\* C20: save() on an AuditLog whose primary key is stored raises and leaves
\* the table as it was, delete() on any AuditLog raises and leaves the table
\* as it was, and no step removes or changes an entry: every entry of the
\* table is in the table after the step, with the same content.
C20_AppendOnly ==
    [][ /\ \A e \in audit_logs : e \in audit_logs'
        /\ (call' # call /\ call'.op = "save"
              /\ AuditLogExists(audit_logs, call'.log.pk))
           => (call'.raised /\ audit_logs' = audit_logs)
        /\ (call' # call /\ call'.op = "delete")
           => (call'.raised /\ audit_logs' = audit_logs) ]_vars

\* save() of a stored entry with a changed action raised and the stored entry
\* kept its action, while the table holds another entry too
C20_Witness ==
    /\ call.op = "save" /\ call.raised
    /\ \E e \in audit_logs :
          e.pk = call.log.pk /\ e.action # call.log.action
    /\ Cardinality(audit_logs) >= 2

(***************************************************************************)
(* parse_row and parse_date                                                *)
(***************************************************************************)

\* the description parse_row takes from a row that has every cell
RowDescription(row) ==
    IF Strip(Get(row, "Appears On Your Statement As")) # <<>>
    THEN Strip(Get(row, "Appears On Your Statement As"))
    ELSE Strip(Get(row, "Description"))

\* C22: parse_row returns for every row a ParsedRow with at most one error, of
\* fixed priority: 'Invalid date format: <raw>' for an invalid date, else
\* 'Invalid amount format: <raw>' for an invalid amount, else 'Missing
\* description' for a missing description, else none.
C22_ErrorPriority ==
    call.op = "parse_row" =>
        /\ ~call.raised
        /\ call.parsed.error =
              IF parse_date(Get(call.row, "Date")) = NoDate
              THEN <<"Invalid date format: ", Get(call.row, "Date")>>
              ELSE IF parse_amount(Get(call.row, "Amount")) = NoAmount
              THEN <<"Invalid amount format: ", Get(call.row, "Amount")>>
              ELSE IF Get(call.row, "Description") = None
                      \/ RowDescription(call.row) = <<>>
              THEN <<"Missing description">>
              ELSE NoError

\* C23: an MM/DD/YY string with a valid month and day and a two-digit year YY
\* parses to the date of that month and day in the year 2000 + YY.
C23_TwoDigitYearIs2000s ==
    (call.op = "parse_date" /\ call.form = "%m/%d/%y"
        /\ call.day <= DaysInMonth(2000 + call.year, call.month))
    => call.date = <<2000 + call.year, call.month, call.day>>

\* the year datetime.strptime gives a two-digit year
PivotYear(yy) == IF yy <= 68 THEN 2000 + yy ELSE 1900 + yy

\* C23: a date string written as MM/DD/YYYY, MM/DD/YY or YYYY-MM-DD, padded
\* or not, parses to the date written when that is a date of the calendar
\* and to nothing otherwise, where a two-digit year YY stands for 2000 + YY
\* when YY is in 00..68 and for 1900 + YY when YY is in 69..99.
C23_TwoDigitYearPivot ==
    call.op = "parse_date" =>
        LET year == IF call.form = "%m/%d/%y"
                    THEN PivotYear(call.year) ELSE call.year
        IN  IF call.day <= DaysInMonth(year, call.month)
            THEN call.date = <<year, call.month, call.day>>
            ELSE call.date = NoDate

\* 12/31/99 was parsed as the last day of 1999
C23_Witness ==
    /\ call.op = "parse_date"
    /\ call.date_str = Chars("12/31/99")
    /\ call.date = <<1999, 12, 31>>

(***************************************************************************)
(* The header of a statement                                               *)
(***************************************************************************)

\* a data line with a well-formed date, description and amount
WellFormedLine == Line(<<"01/05/2026", "ab", "1.50">>)

\* the first line names a date and an amount column, in whatever letter case
NamesDateAndAmount(content) ==
    /\ content # <<>>
    /\ \E i \in DOMAIN Head(content) :
          Lower(Strip(Head(content)[i])) = Chars("date")
    /\ \E i \in DOMAIN Head(content) :
          Lower(Strip(Head(content)[i])) = Chars("amount")

\* C24: under a first line that names a date and an amount column in any
\* letter case, parse_csv takes the line for a header and every well-formed
\* data row under it parses as valid; a file whose first line names no such
\* columns is read by position, the first line being its first data row.
C24_HeaderRowsValid ==
    call.op = "parse_csv" =>
        /\ ( /\ NamesDateAndAmount(call.content)
             /\ Len(call.content) >= 2
             /\ \A n \in 2..Len(call.content) :
                   call.content[n] = WellFormedLine )
           => /\ ~call.raised
              /\ Len(call.rows) = Len(call.content) - 1
              /\ \A n \in DOMAIN call.rows :
                    /\ is_valid(call.rows[n])
                    /\ call.rows[n].date = <<2026, 1, 5>>
                    /\ call.rows[n].amount = 150
        /\ ( /\ call.content # <<>>
             /\ ~NamesDateAndAmount(call.content)
             /\ Head(call.content) = WellFormedLine )
           => /\ ~call.raised
              /\ call.rows[1].row_number = 1
              /\ call.rows[1].date = <<2026, 1, 5>>

\* the first row of the file has a cell that is the name, up to letter case
\* and surrounding white space
FirstRowNames(content, name) ==
    /\ content # <<>>
    /\ \E i \in DOMAIN Head(content) :
          Lower(Strip(Head(content)[i])) = Chars(name)

\* C28: a file validate_csv_file accepts has at least two rows and a first
\* row that names a date, an amount and a description column, whatever the
\* letter case, and parse_csv reads it with that row as header, never by
\* position.
C28_AcceptedFilesHaveHeader ==
    (call.op = "validate_csv_file" /\ call.validation.valid) =>
        /\ ~call.headerless
        /\ Len(call.content) >= 2
        /\ FirstRowNames(call.content, "date")
        /\ FirstRowNames(call.content, "amount")
        /\ \/ FirstRowNames(call.content, "description")
           \/ FirstRowNames(call.content, "appears on your statement as")

\* a file whose header is written in capitals, with white space, was accepted
\* and is read with a header
C28_Witness ==
    /\ call.op = "validate_csv_file"
    /\ call.validation.valid
    /\ Head(call.content)
          = Line(<<" DATE", "Appears On Your Statement As", "amount ">>)
    /\ ~call.headerless

(***************************************************************************)
(* The counts of import_rows                                               *)
(***************************************************************************)

\* C25: when import_rows has returned, the returned imported, skipped and
\* errors add up to the number of parsed rows, whatever skip_duplicates
\* was, and the CSVImport record holds the returned counts and errors with
\* status 'completed'.
C25_EveryRowCountedOnce ==
    \A r \in DOMAIN runs : runs[r].pc = "done" =>
        /\ runs[r].results.imported + runs[r].results.skipped
              + Len(runs[r].results.errors) = Len(runs[r].parsed_rows)
        /\ csv_imports[runs[r].import_id].imported_count
              = runs[r].results.imported
        /\ csv_imports[runs[r].import_id].skipped_count
              = runs[r].results.skipped
        /\ csv_imports[runs[r].import_id].error_count
              = Len(runs[r].results.errors)
        /\ csv_imports[runs[r].import_id].errors = runs[r].results.errors
        /\ csv_imports[runs[r].import_id].status = "completed"

\* one call imported a row and reported another, and a later call skipped a
\* duplicate and reported a row
C25_Witness ==
    \E r1, r2 \in DOMAIN runs :
        /\ runs[r1].pc = "done" /\ runs[r2].pc = "done"
        /\ runs[r1].results.imported >= 1
        /\ runs[r1].results.errors # <<>>
        /\ runs[r2].results.skipped >= 1
        /\ runs[r2].results.errors # <<>>

(***************************************************************************)
(* Repeated confirm requests                                               *)
(***************************************************************************)

\* the requests for import id that went on to import_rows
Importing(id) ==
    {r \in DOMAIN runs :
        runs[r].import_id = id /\ runs[r].pc \in {"processing", "done", "raised"}}

\* C26: with requests served one after another, a request for an import
\* whose status is not 'pending' is redirected and writes nothing: it leaves
\* the Transactions and the import's status, counts and errors as they were,
\* and of the confirm requests for one import at most one runs import_rows.
C26_ProcessedImportNotRerun ==
    /\ [](\A id \in DOMAIN csv_imports : Cardinality(Importing(id)) <= 1)
    /\ [][\A id \in DOMAIN csv_imports :
            ( /\ csv_imports[id].status # "pending"
              /\ Len(runs') = Len(runs) + 1
              /\ runs'[Len(runs')].import_id = id )
            => /\ runs'[Len(runs')].pc = "redirected"
               /\ transactions' = transactions
               /\ csv_imports' = csv_imports]_vars

\* an import was completed with a row written, and a later request for it
\* was redirected
C26_Witness ==
    \E r1, r2 \in DOMAIN runs :
        /\ r1 < r2
        /\ runs[r1].import_id = runs[r2].import_id
        /\ runs[r1].pc = "done"
        /\ runs[r1].results.imported >= 1
        /\ runs[r2].pc = "redirected"
        /\ csv_imports[runs[r1].import_id].status = "completed"
        /\ csv_imports[runs[r1].import_id].imported_count
              = runs[r1].results.imported

\* C27: with confirm requests served in parallel, import_rows runs for at
\* most one of the requests for one import, and no row of the file is
\* written to the ledger by two of them.
C27_ImportedAtMostOnce ==
    \A r1 \in DOMAIN runs, r2 \in DOMAIN runs :
        (r1 # r2 /\ runs[r1].import_id = runs[r2].import_id) =>
            /\ ~(r1 \in Importing(runs[r1].import_id)
                 /\ r2 \in Importing(runs[r2].import_id))
            /\ {t.src_row : t \in RunTransactions(r1)}
                  \cap {t.src_row : t \in RunTransactions(r2)} = {}

(***************************************************************************)
(* Acknowledged tax alerts                                                 *)
(***************************************************************************)

\* C30: no TaxAlert is acknowledged while its alert_triggered is false,
\* whatever acknowledgements, withdrawals of them and calculations were made.
C30_AcknowledgedIsTriggered ==
    \A a \in tax_alerts : a.acknowledged => a.alert_triggered

(***************************************************************************)
(* Recurring transactions: generate_recurring                              *)
(***************************************************************************)

\* most RecurringTransaction rows
MaxTemplates == 2
\* most runs of the command in a row
MaxCommandRuns == 2

FREQUENCY_CHOICES == {"monthly", "quarterly", "annually"}

\* a RecurringTransaction as objects.create saves it: never generated
RecurringTransaction(frequency, day_of_month, next_due, end_date, is_active) ==
    [account |-> 1, category |-> 1, amount |-> 999,
     frequency |-> frequency, day_of_month |-> day_of_month,
     end_date |-> end_date, is_active |-> is_active,
     last_generated |-> NoDate, next_due |-> next_due]

\* the templates created: behind by several periods on a day the shorter
\* months lack, due with an end date ahead or passed or on the day, due on
\* a leap day, not yet due, and inactive
TemplatePool ==
    { RecurringTransaction("monthly", 31, <<2025, 11, 30>>, NoDate, TRUE),
      RecurringTransaction("monthly", 15, <<2026, 1, 15>>, <<2026, 2, 28>>, TRUE),
      RecurringTransaction("monthly", 15, <<2026, 1, 15>>, <<2026, 1, 20>>, TRUE),
      RecurringTransaction("quarterly", 31, <<2025, 11, 30>>, NoDate, TRUE),
      RecurringTransaction("quarterly", 15, <<2026, 1, 15>>, <<2026, 3, 31>>, TRUE),
      RecurringTransaction("annually", 29, <<2024, 2, 29>>, NoDate, TRUE),
      RecurringTransaction("annually", 15, <<2026, 1, 15>>, <<2026, 1, 15>>, TRUE),
      RecurringTransaction("monthly", 1, <<2026, 4, 1>>, NoDate, TRUE),
      RecurringTransaction("monthly", 15, <<2026, 1, 15>>, NoDate, FALSE) }

\* --date, or date.today()
EffectiveDates == {<<2026, 1, 15>>, <<2026, 1, 31>>, <<2026, 3, 31>>}

\* RecurringTransaction.objects.create(...)
RecurringCreate ==
    \E template \in TemplatePool :
        /\ Len(recurring) < MaxTemplates
        /\ recurring' = Append(recurring, template)
        /\ call' = NoCall
        /\ UNCHANGED <<import_vars, tasks, clock, tax_alerts, audit_logs>>

\* d + relativedelta(months=n): the day is cut to the length of the month
AddMonths(d, n) ==
    LET index == d[1] * 12 + (d[2] - 1) + n
        y == index \div 12
        m == (index % 12) + 1
    IN  <<y, m, IF d[3] > DaysInMonth(y, m) THEN DaysInMonth(y, m) ELSE d[3]>>

\* d.replace(day=day_of_month), and in the except branch
\* d.replace(day=min(day_of_month, last_day))
ReplaceDay(d, day_of_month) ==
    LET last_day == DaysInMonth(d[1], d[2])
    IN  <<d[1], d[2],
          IF day_of_month <= last_day THEN day_of_month ELSE last_day>>

\* _calculate_next_due
_calculate_next_due(template) ==
    LET current_due == template.next_due
        months == CASE template.frequency = "monthly" -> 1
                    [] template.frequency = "quarterly" -> 3
                    [] template.frequency = "annually" -> 12
    IN  ReplaceDay(AddMonths(current_due, months), template.day_of_month)

\* the Transaction the command creates for the template's next_due
GeneratedTransaction(id, template, source) ==
    [id |-> id, account |-> template.account,
     transaction_type |-> "expense", category |-> template.category,
     amount |-> template.amount, transaction_date |-> template.next_due,
     is_recurring |-> TRUE, recurring_source |-> source]

\* WhileDue taken as an if: one period a run
RECURSIVE WhileDueOnce(_, _, _, _, _)
WhileDueOnce(db, template, id, effective_date, dry_run) ==
    IF DateBefore(effective_date, template.next_due)
    THEN db
    ELSE LET next_due == _calculate_next_due(template)
             ended == /\ template.end_date # NoDate
                      /\ DateBefore(template.end_date, next_due)
             moved == [template EXCEPT !.last_generated = template.next_due,
                                       !.next_due = next_due,
                                       !.is_active = IF ended THEN FALSE ELSE @]
         IN  IF dry_run THEN db
             ELSE [templates |-> [db.templates EXCEPT ![id] = moved],
                   txs |-> db.txs \cup
                       {GeneratedTransaction(db.next_id, template, id)},
                   next_id |-> db.next_id + 1]

\* WhileDue that saves last_generated and not next_due
RECURSIVE WhileDueSavingLastGeneratedOnly(_, _, _, _, _)
WhileDueSavingLastGeneratedOnly(db, template, id, effective_date, dry_run) ==
    IF DateBefore(effective_date, template.next_due)
    THEN db
    ELSE LET next_due == _calculate_next_due(template)
             ended == /\ template.end_date # NoDate
                      /\ DateBefore(template.end_date, next_due)
             moved == [template EXCEPT !.next_due = next_due]
             after ==
                 IF dry_run THEN db
                 ELSE [templates |-> [db.templates EXCEPT
                           ![id].last_generated = template.next_due,
                           ![id].is_active = IF ended THEN FALSE ELSE @],
                       txs |-> db.txs \cup
                           {GeneratedTransaction(db.next_id, template, id)},
                       next_id |-> db.next_id + 1]
         IN  IF ended THEN after
             ELSE WhileDueSavingLastGeneratedOnly(after, moved, id,
                                                  effective_date, dry_run)

\* "while template.next_due <= effective_date": template is the object in
\* memory, db the tables; a dry run moves next_due in memory only
RECURSIVE WhileDue(_, _, _, _, _)
WhileDue(db, template, id, effective_date, dry_run) ==
    IF DateBefore(effective_date, template.next_due)
    THEN db
    ELSE LET next_due == _calculate_next_due(template)
             ended == /\ template.end_date # NoDate
                      /\ DateBefore(template.end_date, next_due)
             moved ==
                 [template EXCEPT
                     !.last_generated = IF dry_run THEN @
                                        ELSE template.next_due,
                     !.next_due = next_due,
                     !.is_active = IF ended /\ ~dry_run THEN FALSE ELSE @]
             after ==
                 IF dry_run THEN db
                 ELSE [templates |-> [db.templates EXCEPT ![id] = moved],
                       txs |-> db.txs \cup
                           {GeneratedTransaction(db.next_id, template, id)},
                       next_id |-> db.next_id + 1]
         IN  IF ended THEN after
             ELSE WhileDue(after, moved, id, effective_date, dry_run)

\* filter(is_active=True, next_due__lte=effective_date) under Meta.ordering
\* ['next_due'], rows of one next_due in creation order
DueTemplates(templates, effective_date) ==
    LET due == {id \in DOMAIN templates :
                  /\ templates[id].is_active
                  /\ ~DateBefore(effective_date, templates[id].next_due)}
        Ordered(ids) ==
            CHOOSE order \in [1..Cardinality(ids) -> ids] :
                /\ \A i, j \in DOMAIN order : i # j => order[i] # order[j]
                /\ \A i, j \in DOMAIN order : i < j =>
                      \/ DateBefore(templates[order[i]].next_due,
                                    templates[order[j]].next_due)
                      \/ /\ templates[order[i]].next_due
                               = templates[order[j]].next_due
                         /\ order[i] < order[j]
    IN  Ordered(due)

\* the body of "for template in recurring_templates" for the rows of ids
RECURSIVE ForTemplates(_, _, _, _, _)
ForTemplates(db, fetched, ids, effective_date, dry_run) ==
    IF ids = <<>>
    THEN db
    ELSE LET template == fetched[Head(ids)]
             passed == /\ template.end_date # NoDate
                       /\ DateBefore(template.end_date, effective_date)
         IN  ForTemplates(
                 IF passed THEN db
                 ELSE WhileDue(db, template, Head(ids), effective_date,
                               dry_run),
                 fetched, Tail(ids), effective_date, dry_run)

\* Command.handle of generate_recurring with a well-formed --date or none
GenerateRecurring ==
    \E effective_date \in EffectiveDates, dry_run \in BOOLEAN :
        LET seq == IF call.op = "generate_recurring" THEN call.seq + 1 ELSE 1
        IN  \E db \in {ForTemplates(
                            [templates |-> recurring, txs |-> transactions,
                             next_id |-> next_tx_id],
                            recurring,
                            DueTemplates(recurring, effective_date),
                            effective_date, dry_run)} :
            /\ seq <= MaxCommandRuns
            /\ recurring' = db.templates
            /\ transactions' = db.txs
            /\ next_tx_id' = db.next_id
            /\ call' = [op |-> "generate_recurring",
                        effective_date |-> effective_date,
                        dry_run |-> dry_run,
                        seq |-> seq,
                        repeated |-> /\ call.op = "generate_recurring"
                                     /\ ~call.dry_run
                                     /\ call.effective_date = effective_date]
            /\ UNCHANGED <<csv_imports, runs, concurrent, tasks, clock, tax_alerts, audit_logs>>

NextRecurring ==
    \/ RecurringCreate
    \/ GenerateRecurring

SpecRecurring == Init /\ [][NextRecurring]_vars

\* the template is one the run with effective date d has to generate for
Eligible(template, d) ==
    /\ template.is_active
    /\ ~DateBefore(d, template.next_due)
    /\ template.end_date = NoDate \/ ~DateBefore(template.end_date, d)

\* the due dates of the template up to d: its next_due, and then the
\* day_of_month (or the last day, in a shorter month) of every month, third
\* month or twelfth month after the month of next_due
DueDates(template, d) ==
    LET step == CASE template.frequency = "monthly" -> 1
                  [] template.frequency = "quarterly" -> 3
                  [] template.frequency = "annually" -> 12
        first == template.next_due[1] * 12 + (template.next_due[2] - 1)
        last == d[1] * 12 + (d[2] - 1)
        DayIn(index) ==
            LET y == index \div 12
                m == (index % 12) + 1
            IN  <<y, m, IF template.day_of_month > DaysInMonth(y, m)
                        THEN DaysInMonth(y, m) ELSE template.day_of_month>>
    IN  {template.next_due} \cup
        {date \in {DayIn(first + step * j) :
                      j \in 1..((last - first) \div step)} :
            ~DateBefore(d, date)}

\* the latest of a set of dates
Latest(dates) == CHOOSE x \in dates : \A y \in dates : ~DateBefore(x, y)

\* the Transactions of txs generated from template id
GeneratedFrom(txs, id) == {t \in txs : t.recurring_source = id}

\* C21: a run of generate_recurring that is no dry run, with effective date
\* D, creates for every active template with next_due <= D and no end_date
\* before D exactly one expense Transaction per due date <= D, leaves its
\* last_generated at the last of those dates and its next_due after D; for
\* every other template it creates nothing and leaves the template as it
\* was.  No Transaction that existed is removed.
C21_CatchesUpAllDuePeriods ==
    [][(call'.op = "generate_recurring" /\ call' # call /\ ~call'.dry_run) =>
        /\ transactions \subseteq transactions'
        /\ DOMAIN recurring' = DOMAIN recurring
        /\ \A id \in DOMAIN recurring :
              LET template == recurring[id]
                  d == call'.effective_date
                  new == GeneratedFrom(transactions' \ transactions, id)
              IN  IF Eligible(template, d)
                  THEN /\ {t.transaction_date : t \in new}
                            = DueDates(template, d)
                       /\ Cardinality(new)
                            = Cardinality(DueDates(template, d))
                       /\ \A t \in new :
                             /\ t.transaction_type = "expense"
                             /\ t.amount = template.amount
                             /\ t.account = template.account
                       /\ recurring'[id].last_generated
                            = Latest(DueDates(template, d))
                       /\ DateBefore(d, recurring'[id].next_due)
                  ELSE /\ new = {}
                       /\ recurring'[id] = template]_vars

\* a run caught a template up by three periods or more, one of them in a
\* month shorter than its day_of_month, and passed over a template whose
\* end_date lay before the effective date
C21_Witness ==
    /\ call.op = "generate_recurring"
    /\ ~call.dry_run
    /\ \E id \in DOMAIN recurring :
          /\ Cardinality(GeneratedFrom(transactions, id)) >= 3
          /\ \E t \in GeneratedFrom(transactions, id) :
                t.transaction_date[3] < recurring[id].day_of_month
          /\ recurring[id].last_generated # NoDate
          /\ DateBefore(call.effective_date, recurring[id].next_due)
    /\ \E id \in DOMAIN recurring :
          /\ recurring[id].is_active
          /\ recurring[id].end_date # NoDate
          /\ DateBefore(recurring[id].end_date, call.effective_date)
          /\ GeneratedFrom(transactions, id) = {}

\* C29: a run of generate_recurring that directly follows a run with the same
\* effective date, neither a dry run, creates no Transaction and leaves every
\* template as it was.
C29_SecondRunChangesNothing ==
    [][(call'.op = "generate_recurring" /\ call' # call
            /\ call'.repeated /\ ~call'.dry_run) =>
        /\ transactions' = transactions
        /\ recurring' = recurring]_vars

\* the second of two runs with one effective date, after the first generated
\* Transactions and deactivated a template whose end_date was reached
C29_Witness ==
    /\ call.op = "generate_recurring"
    /\ call.repeated
    /\ ~call.dry_run
    /\ transactions # {}
    /\ \E id \in DOMAIN recurring :
          /\ ~recurring[id].is_active
          /\ recurring[id].last_generated # NoDate
    /\ \E id \in DOMAIN recurring :
          /\ recurring[id].is_active
          /\ recurring[id].last_generated # NoDate

====
